---- MODULE Spec2Model ----
(***************************************************************************)
(* A model of github.com/bep/overlayfs: an ordered list of backend         *)
(* filesystems resolved first-match-wins (OverlayFs), the write dispatch   *)
(* to the first backend, the Go slice the backend list lives in, and the   *)
(* pooled merged-directory cursor (Dir).                                   *)
(***************************************************************************)
EXTENDS Integers, Sequences, FiniteSets, TLC

\* ------------------------------------------------------------------ bounds
NumLeaf == 3        \* number of plain (leaf) backend filesystems
MaxOfs == 4         \* overlay instances that New/Append may create
MaxDir == 2         \* Dir objects the pool's New may allocate
MaxN == 3           \* largest n passed to ReadDir/Readdir/Readdirnames

Leaf == 1..NumLeaf
Paths == {"d", "e"}
Names == {"x", "y", "z"}
Kinds == {"none", "file", "dir"}

VARIABLES
    kind,       \* kind[l][p]: what leaf backend l holds at path p
    list,       \* list[l][p]: the names leaf l lists in directory p, in its order
    statErr,    \* statErr[l]: leaf l fails every Stat with its own error (testFs)
    arrays,     \* backing arrays of the fss slices (Go slices share them)
    ofs,        \* overlay instances: slice header (arr, len), flags
    dirs,       \* Dir objects ever allocated by dirPool.New
    pool,       \* dirPool: the Dir objects currently in the pool (with repeats)
    live,       \* Dir objects handed out by Open and not closed by the caller
    closed,     \* Dir objects on which the caller has ever called Close
    acc,        \* per Dir object: entries returned by reads since it was opened
    last,       \* the last operation and its outcome
    calls       \* the backend operations the last operation invoked, in order

vars == <<kind, list, statErr, arrays, ofs, dirs, pool, live, closed, acc, last, calls>>

\* ------------------------------------------------------------ plain values
FsB(l) == <<"fs", l>>
OfsB(j) == <<"ofs", j>>
NilB == <<"nil", 0>>
IsLeaf(b) == b[1] = "fs"
IsOfs(b) == b[1] = "ofs"

NoErr == [k |-> "nil", fs |-> 0]
ErrNotExist == [k |-> "ErrNotExist", fs |-> 0]
ErrPermission == [k |-> "ErrPermission", fs |-> 0]
ErrClosed == [k |-> "ErrClosed", fs |-> 0]
ErrEOF == [k |-> "EOF", fs |-> 0]
ErrExist == [k |-> "ErrExist", fs |-> 0]
ErrNotDir == [k |-> "ErrNotDir", fs |-> 0]
StatError(l) == [k |-> "statErr", fs |-> l]
IsNotExist(e) == e.k = "ErrNotExist"

NilFi == [fs |-> 0, kind |-> "none", name |-> ""]
NilEntry == [name |-> "", fs |-> 0]
Call(b, op, p) == [fs |-> b, op |-> op, p |-> p]

\* A stat outcome: owning backend, metadata, lightweight flag, error.
StatRes(b, fi, ok, e) == [owner |-> b, fi |-> fi, ok |-> ok, err |-> e]
NotFound == StatRes(NilB, NilFi, FALSE, ErrNotExist)

\* ------------------------------------------------------- the backend list
\* ofs.fss as a Go slice: the first len elements of its backing array.
Fss(o) == SubSeq(arrays[ofs[o].arr], 1, ofs[o].len)

\* OverlayFs.NumFilesystems
NumFilesystems(o) == ofs[o].len

\* Mutant of Filesystem: the bound check is off by one.
FilesystemPastEnd(o, i) ==
    IF i > ofs[o].len \/ i + 1 > Len(arrays[ofs[o].arr]) THEN NilB ELSE arrays[ofs[o].arr][i + 1]
\* OverlayFs.Filesystem: nil when i is past the end (i counts from 0).
Filesystem(o, i) == IF i >= ofs[o].len THEN NilB ELSE arrays[ofs[o].arr][i + 1]

\* FilesystemIterator: only an OverlayFs enumerates sub-backends.
IsIterator(b) == IsOfs(b)
\* afero.Lstater: OverlayFs, MemMapFs and testFs all implement it.
IsLstater(b) == TRUE

\* ------------------------------------------------------------- resolution
RECURSIVE FsStat(_, _), FsLstat(_, _), statRecursive(_, _, _), statSubs(_, _, _, _)
RECURSIVE statFrom(_, _, _, _)

\* A leaf backend's Stat: its error if it is a failing one, else what it holds.
LeafStat(l, name) ==
    IF statErr[l] THEN StatRes(FsB(l), NilFi, FALSE, StatError(l))
    ELSE IF kind[l][name] = "none" THEN NotFound
    ELSE StatRes(FsB(l), [fs |-> l, kind |-> kind[l][name], name |-> name], FALSE, NoErr)

\* Mutant of Miss: an error of its own for a search that found nothing.
MissNoBackends == [r |-> StatRes(NilB, NilFi, FALSE, ErrPermission), c |-> <<>>]
\* return nil, nil, false, os.ErrNotExist: the search loop fell through.
Miss == [r |-> NotFound, c |-> <<>>]
\* Mutant of Hit: any error lets the search go on to the next backend.
HitOnlyFound(s) == s.r.err = NoErr
\* err == nil || !os.IsNotExist(err): the lookup ends the search.
Hit(s) == s.r.err = NoErr \/ ~IsNotExist(s.r.err)
\* Mutant of OrElse: the last backend that answers wins.
OrElseLastWins(s, rest) ==
    IF rest.r.err = NoErr \/ ~IsNotExist(rest.r.err) THEN [r |-> rest.r, c |-> s.c \o rest.c]
    ELSE s
\* One turn of a search loop: s if it ends the search, else the rest of the loop.
OrElse(s, rest) == IF Hit(s) THEN s ELSE [r |-> rest.r, c |-> s.c \o rest.c]
Logged(call, s) == [r |-> s.r, c |-> <<call>> \o s.c]

\* Mutant of statFrom: a nested overlay in the list is passed over.
statFromLeavesOnly(o, i, name, lstatIfPossible) ==
    IF i > ofs[o].len THEN Miss
    ELSE IF IsOfs(Fss(o)[i]) THEN statFrom(o, i + 1, name, lstatIfPossible)
    ELSE OrElse(statRecursive(Fss(o)[i], name, lstatIfPossible),
                statFrom(o, i + 1, name, lstatIfPossible))
\* OverlayFs.stat: the first backend whose statRecursive is not "not found".
statFrom(o, i, name, lstatIfPossible) ==
    IF i > ofs[o].len THEN Miss
    ELSE OrElse(statRecursive(Fss(o)[i], name, lstatIfPossible),
                statFrom(o, i + 1, name, lstatIfPossible))

\* Mutant of stat: right after a Create or Mkdir of name, the "not found" of
\* before the write is served again.
statStale(o, name, lstatIfPossible) ==
    IF last.op \in {"Create", "Mkdir"} /\ last.p = name THEN Miss
    ELSE statFrom(o, 1, name, lstatIfPossible)
stat(o, name, lstatIfPossible) == statFrom(o, 1, name, lstatIfPossible)

\* b.Stat(name) on any backend; a nested overlay answers with its own Stat.
FsStat(b, name) ==
    Logged(Call(b, "Stat", name),
           IF IsLeaf(b) THEN [r |-> LeafStat(b[2], name), c |-> <<>>]
           ELSE stat(b[2], name, FALSE))

\* b.LstatIfPossible(name); OverlayFs.LstatIfPossible resolves with stat(name, false).
FsLstat(b, name) ==
    Logged(Call(b, "LstatIfPossible", name),
           IF IsLeaf(b) THEN [r |-> LeafStat(b[2], name), c |-> <<>>]
           ELSE stat(b[2], name, FALSE))

\* The loop of statRecursive over the sub-backends of an iterator.
statSubs(b, i, name, lstatIfPossible) ==
    IF ~IsIterator(b) \/ i >= NumFilesystems(b[2]) THEN Miss
    ELSE OrElse(statRecursive(Filesystem(b[2], i), name, lstatIfPossible),
                statSubs(b, i + 1, name, lstatIfPossible))

\* The backend's own answer with the backend as owner, else its sub-backends'.
SelfOrSubs(b, first, sub) ==
    IF Hit(first) THEN [r |-> StatRes(b, first.r.fi, first.r.ok, first.r.err), c |-> first.c]
    ELSE [r |-> sub.r, c |-> first.c \o sub.c]

\* OverlayFs.statRecursive: the backend itself, then its sub-backends in order.
statRecursive(b, name, lstatIfPossible) ==
    SelfOrSubs(b,
               IF lstatIfPossible /\ IsLstater(b) THEN FsLstat(b, name) ELSE FsStat(b, name),
               statSubs(b, 0, name, lstatIfPossible))

\* ------------------------------------------------------ owner collection
RECURSIVE collectDirsRecursive(_, _), collectSubs(_, _, _)

Join(h, t) == [owners |-> h.owners \o t.owners, c |-> h.c \o t.c]
\* Mutant of OwnIfDir: whatever the backend holds at name makes it an owner.
OwnIfFound(b, s) == [owners |-> IF s.r.err = NoErr THEN <<b>> ELSE <<>>, c |-> s.c]
\* err == nil && fi.IsDir(): b is an owner; any failing Stat is skipped.
OwnIfDir(b, s) ==
    [owners |-> IF s.r.err = NoErr /\ s.r.fi.kind = "dir" THEN <<b>> ELSE <<>>, c |-> s.c]

\* The loop of collectDirsRecursive over the sub-backends of an iterator.
collectSubs(b, i, name) ==
    IF ~IsIterator(b) \/ i >= NumFilesystems(b[2]) THEN [owners |-> <<>>, c |-> <<>>]
    ELSE Join(collectDirsRecursive(Filesystem(b[2], i), name), collectSubs(b, i + 1, name))

\* OverlayFs.collectDirsRecursive: b itself when it holds name as a directory,
\* then its sub-backends. The error it returns is always nil.
collectDirsRecursive(b, name) ==
    Join(OwnIfDir(b, FsStat(b, name)), collectSubs(b, 0, name))

RECURSIVE collectFrom(_, _, _)
collectFrom(o, i, name) ==
    IF i > ofs[o].len THEN [owners |-> <<>>, c |-> <<>>]
    ELSE Join(collectDirsRecursive(Fss(o)[i], name), collectFrom(o, i + 1, name))

\* OverlayFs.collectDirs: every backend of the tree holding name as a directory.
collectDirs(o, name) == collectFrom(o, 1, name)

\* ----------------------------------------------------- the cursor pool
DirId == 1..MaxDir
NilH == [t |-> "nil", id |-> 0]
\* What the caller keeps of a cursor's reads since it was opened: the entries
\* got so far, the page size when every read was ReadDir(k) with one k >= 1
\* (else -1), the reads made (counted up to 2), whether the last one gave
\* io.EOF, and whether one of them panicked.
NoAcc == [got |-> <<>>, k |-> 0, reads |-> 0, eof |-> FALSE, panic |-> FALSE]
\* A zero Dir, as dirPool.New makes it.
ZeroDir == [name |-> "", fss |-> <<>>, buf |-> <<>>, len |-> 0, offset |-> 0,
            err |-> NoErr, merge |-> "nil"]

\* Dir.isClosed (dirOpeners is empty for every Dir that Open makes).
isClosed(d) == Len(d.fss) = 0

\* Mutant of releaseDir: the entries are not truncated.
releaseDirKeepEntries(d) == [d EXCEPT !.fss = <<>>, !.offset = 0, !.name = "", !.err = NoErr]
\* Mutant of releaseDir: the cached error is kept.
releaseDirKeepErr(d) == [d EXCEPT !.fss = <<>>, !.len = 0, !.offset = 0, !.name = ""]
\* releaseDir without the Put: every field but merge and the buffer's array.
releaseDir(d) == [d EXCEPT !.fss = <<>>, !.len = 0, !.offset = 0, !.name = "",
                           !.err = NoErr]

\* Mutant of GetChoices: Get may hand out an object that is not in the pool.
GetChoicesUnsafe == (DirId \cap 1..Len(dirs)) \cup (IF Len(dirs) < MaxDir THEN {0} ELSE {})
\* dirPool.Get: an object of the pool, or a new one from New when the runtime
\* finds none (sync.Pool may drop pooled objects at any time). 0 stands for New.
GetChoices == {i \in DirId : pool[i] > 0} \cup (IF Len(dirs) < MaxDir THEN {0} ELSE {})
GotId(g) == IF g = 0 THEN Len(dirs) + 1 ELSE g
DirsAfterGet(g) == IF g = 0 THEN Append(dirs, ZeroDir) ELSE dirs
PoolAfterGet(g) == IF g = 0 THEN pool ELSE [pool EXCEPT ![g] = @ - 1]
PoolPut(pl, id) == [pl EXCEPT ![id] = @ + 1]

\* ------------------------------------------------------------------- Open
RECURSIVE BackendOpen(_, _)
\* A leaf's Open: its own handle for what it holds (a testFs panics).
LeafOpen(l, name) ==
    [h |-> IF statErr[l] THEN [t |-> "panic", id |-> l]
           ELSE IF kind[l][name] = "none" THEN NilH
           ELSE [t |-> IF kind[l][name] = "dir" THEN "fsdir" ELSE "file", id |-> l],
     err |-> IF ~statErr[l] /\ kind[l][name] = "none" THEN ErrNotExist ELSE NoErr,
     c |-> <<>>]
LoggedOpen(call, r) == [r EXCEPT !.c = <<call>> \o @]
After(s, r) == [r EXCEPT !.c = s.c \o @]
\* A nested overlay's Open of a path that is not a merged directory: it
\* resolves the path and opens it on the owner.
OpenResolved(s, name) ==
    IF s.r.err # NoErr THEN [h |-> NilH, err |-> s.r.err, c |-> s.c]
    ELSE After(s, BackendOpen(s.r.owner, name))

\* b.Open(name) for the backend that resolution or collection found.
BackendOpen(b, name) ==
    LoggedOpen(Call(b, "Open", name),
               IF IsLeaf(b) THEN LeafOpen(b[2], name)
               ELSE OpenResolved(stat(b[2], name, FALSE), name))

NoLast == [op |-> "init", o |-> 0, p |-> "", p2 |-> "", n |-> 0, d |-> 0, flag |-> {},
           err |-> NoErr, fi |-> NilFi, ok |-> FALSE, owner |-> NilB, ret |-> NilH,
           entries |-> <<>>, panic |-> FALSE, via |-> "", fss |-> <<>>]

OfsIds == 1..Len(ofs)

StatDone(op, o, name, s) ==
    /\ last' = [NoLast EXCEPT !.op = op, !.o = o, !.p = name,
                              !.fi = s.r.fi, !.ok = s.r.ok, !.err = s.r.err]
    /\ calls' = s.c
    /\ UNCHANGED <<kind, list, statErr, arrays, ofs, dirs, pool, live, closed, acc>>

\* OverlayFs.Stat
Stat(o, name) == StatDone("Stat", o, name, stat(o, name, FALSE))

\* OverlayFs.LstatIfPossible
LstatIfPossible(o, name) == StatDone("LstatIfPossible", o, name, stat(o, name, FALSE))

\* Open ends without a pooled Dir: a resolution error, or a file of the owner.
OpenPlain(base, s, bo) ==
    /\ last' = [base EXCEPT !.err = bo.err, !.ret = bo.h, !.owner = s.r.owner,
                            !.panic = (bo.h.t = "panic")]
    /\ calls' = bo.c
    /\ UNCHANGED <<dirs, pool, live, closed, acc>>

\* len(dir.fss) == 0: the Dir goes back to the pool, not found.
OpenNoOwner(base, id, ds, pl, dir, c) ==
    /\ dirs' = [ds EXCEPT ![id] = releaseDir(dir)]
    /\ pool' = PoolPut(pl, id)
    /\ last' = [base EXCEPT !.err = ErrNotExist, !.d = id, !.fss = dir.fss]
    /\ calls' = c
    /\ UNCHANGED <<live, closed, acc>>

\* len(dir.fss) == 1: the owner's own handle; the Dir goes back to the pool.
OpenOneOwner(base, id, ds, pl, dir, bo) ==
    /\ dirs' = [ds EXCEPT ![id] = releaseDir(dir)]
    /\ pool' = PoolPut(pl, id)
    /\ last' = [base EXCEPT !.err = bo.err, !.ret = bo.h, !.d = id, !.owner = dir.fss[1],
                            !.panic = (bo.h.t = "panic"), !.fss = dir.fss]
    /\ calls' = bo.c
    /\ UNCHANGED <<live, closed, acc>>

\* Two owners or more: the pooled Dir is the handle.
OpenMerged(base, id, ds, pl, dir, s, c) ==
    /\ dirs' = [ds EXCEPT ![id] = dir]
    /\ pool' = pl
    /\ live' = live \cup {id}
    /\ acc' = [acc EXCEPT ![id] = NoAcc]
    /\ UNCHANGED closed
    /\ last' = [base EXCEPT !.ret = [t |-> "dir", id |-> id], !.d = id, !.owner = s.r.owner,
                            !.fss = dir.fss]
    /\ calls' = c

\* Mutant of OpenDir: no dispatch, the pooled Dir is always the handle.
OpenDirAlwaysMerged(base, name, id, ds, pl, dir, s, col) ==
    OpenMerged(base, id, ds, pl, dir, s, s.c \o col.c)
\* The directory branch of Open once the Dir is taken and the owners collected.
OpenDir(base, name, id, ds, pl, dir, s, col) ==
    IF Len(dir.fss) = 0 THEN OpenNoOwner(base, id, ds, pl, dir, s.c \o col.c)
    ELSE IF Len(dir.fss) = 1
    THEN OpenOneOwner(base, id, ds, pl, dir,
                      [BackendOpen(dir.fss[1], name) EXCEPT !.c = s.c \o col.c \o @])
    ELSE OpenMerged(base, id, ds, pl, dir, s, s.c \o col.c)

\* getDir, dir.name, dir.merge and the append of each collected owner to dir.fss.
TakeDir(g, o, name, col) ==
    [DirsAfterGet(g)[GotId(g)] EXCEPT !.name = name, !.merge = ofs[o].mergeDirs,
                                      !.fss = @ \o col.owners]

OpenCollected(base, o, name, s, col) ==
    \E g \in GetChoices :
        OpenDir(base, name, GotId(g), DirsAfterGet(g), PoolAfterGet(g),
                TakeDir(g, o, name, col), s, col)

\* Open from the resolution s on, col being what collectDirs gives when the
\* path resolves to a directory.
OpenResolvedAs(base, o, name, s, col) ==
    IF s.r.err # NoErr THEN OpenPlain(base, s, [h |-> NilH, err |-> s.r.err, c |-> s.c])
    ELSE IF s.r.fi.kind = "dir" THEN OpenCollected(base, o, name, s, col)
    ELSE OpenPlain(base, s, After(s, BackendOpen(s.r.owner, name)))

\* The body of OverlayFs.Open; op is the facade operation it is reached from.
OpenAs(op, flag, o, name) ==
    /\ UNCHANGED <<kind, list, statErr, arrays, ofs>>
    /\ OpenResolvedAs([NoLast EXCEPT !.op = op, !.o = o, !.p = name, !.flag = flag],
                      o, name, stat(o, name, FALSE), collectDirs(o, name))

\* OverlayFs.Open
Open(o, name) == OpenAs("Open", {}, o, name)

\* OverlayFs.Open in two steps, for runs in which the backends change
\* under it: first the stat, whose result the caller's frame holds (last) ...
OpenStatDone(o, name, s) ==
    /\ last' = [NoLast EXCEPT !.op = "OpenStat", !.o = o, !.p = name, !.fi = s.r.fi,
                              !.ok = s.r.ok, !.owner = s.r.owner, !.err = s.r.err]
    /\ calls' = s.c
    /\ UNCHANGED <<kind, list, statErr, arrays, ofs, dirs, pool, live, closed, acc>>
OpenStat(o, name) == OpenStatDone(o, name, stat(o, name, FALSE))

\* ... then the rest of Open, from the result of that stat on.
OpenCollect ==
    /\ last.op = "OpenStat"
    /\ UNCHANGED <<kind, list, statErr, arrays, ofs>>
    /\ OpenResolvedAs([NoLast EXCEPT !.op = "Open", !.o = last.o, !.p = last.p],
                      last.o, last.p,
                      [r |-> StatRes(last.owner, last.fi, last.ok, last.err), c |-> calls],
                      collectDirs(last.o, last.p))

\* Another user of leaf l removes name from it while an Open is between its
\* stat and its collection.
LeafRemove(l, name) ==
    /\ last.op = "OpenStat" /\ kind[l][name] # "none"
    /\ kind' = [kind EXCEPT ![l][name] = "none"]
    /\ list' = [list EXCEPT ![l][name] = <<>>]
    /\ UNCHANGED <<statErr, arrays, ofs, dirs, pool, live, closed, acc, last, calls>>

\* Dir.Close: releaseDir, then back into the pool.
Close(id) ==
    /\ dirs' = [dirs EXCEPT ![id] = releaseDir(@)]
    /\ pool' = PoolPut(pool, id)
    /\ live' = live \ {id}
    /\ closed' = closed \cup {id}
    /\ acc' = [acc EXCEPT ![id] = NoAcc]
    /\ last' = [NoLast EXCEPT !.op = "Close", !.d = id]
    /\ calls' = <<>>
    /\ UNCHANGED <<kind, list, statErr, arrays, ofs>>

\* --------------------------------------------------------- write dispatch
WriteFlags == {"O_WRONLY", "O_RDWR", "O_APPEND", "O_CREATE", "O_TRUNC"}
\* The flag sets OpenFile is called with (the empty set is O_RDONLY).
FlagChoices == {{}, {"O_EXCL"}, {"O_CREATE"}, {"O_WRONLY"}, {"O_RDWR", "O_TRUNC"}, {"O_APPEND"}}

\* Mutant of LeafWrite: Remove and RemoveAll report success and remove nothing.
LeafWriteKeeps(op, flag, k, k2) ==
    IF op \in {"Remove", "RemoveAll"}
    THEN [err |-> NoErr, k |-> k, k2 |-> k2, clear |-> FALSE]
    ELSE IF op = "Create" THEN [err |-> NoErr, k |-> "file", k2 |-> k2, clear |-> TRUE]
    ELSE [err |-> IF k = "none" THEN ErrNotExist ELSE NoErr, k |-> k, k2 |-> k2,
          clear |-> FALSE]
\* What a write operation does to a leaf backend holding k at p (and k2 at p2):
\* the error it returns and what p and p2 hold afterwards.
LeafWrite(op, flag, k, k2) ==
    CASE op = "Create" -> [err |-> NoErr, k |-> "file", k2 |-> k2, clear |-> TRUE]
      [] op = "OpenFile" ->
            IF k = "none" /\ "O_CREATE" \notin flag
            THEN [err |-> ErrNotExist, k |-> k, k2 |-> k2, clear |-> FALSE]
            ELSE [err |-> NoErr, k |-> IF k = "none" THEN "file" ELSE k, k2 |-> k2,
                  clear |-> FALSE]
      [] op = "Mkdir" ->
            IF k = "none" THEN [err |-> NoErr, k |-> "dir", k2 |-> k2, clear |-> TRUE]
            ELSE [err |-> ErrExist, k |-> k, k2 |-> k2, clear |-> FALSE]
      [] op = "MkdirAll" ->
            IF k = "none" THEN [err |-> NoErr, k |-> "dir", k2 |-> k2, clear |-> TRUE]
            ELSE IF k = "dir" THEN [err |-> NoErr, k |-> k, k2 |-> k2, clear |-> FALSE]
            ELSE [err |-> ErrNotDir, k |-> k, k2 |-> k2, clear |-> FALSE]
      [] op = "Remove" ->
            IF k = "none" THEN [err |-> ErrNotExist, k |-> k, k2 |-> k2, clear |-> FALSE]
            ELSE [err |-> NoErr, k |-> "none", k2 |-> k2, clear |-> TRUE]
      [] op = "RemoveAll" -> [err |-> NoErr, k |-> "none", k2 |-> k2, clear |-> TRUE]
      [] op = "Rename" ->
            IF k = "none" THEN [err |-> ErrNotExist, k |-> k, k2 |-> k2, clear |-> FALSE]
            ELSE [err |-> NoErr, k |-> "none", k2 |-> k, clear |-> FALSE]
      [] OTHER ->  \* Chmod, Chown, Chtimes
            IF k = "none" THEN [err |-> ErrNotExist, k |-> k, k2 |-> k2, clear |-> FALSE]
            ELSE [err |-> NoErr, k |-> k, k2 |-> k2, clear |-> FALSE]

\* Mutant of writeFs: the last backend is the write target.
writeFsLast(o) == IF ofs[o].len = 0 THEN NilB ELSE arrays[ofs[o].arr][ofs[o].len]
\* OverlayFs.writeFs: the first backend; a panic when there is none.
writeFs(o) == IF ofs[o].len = 0 THEN NilB ELSE arrays[ofs[o].arr][1]
writeFsPanics(o) == ofs[o].len = 0

\* Mutant of Gate: the permission check is missing.
GateOpen(o) == TRUE
\* The check every write operation starts with.
Gate(o) == ofs[o].firstWritable

RECURSIVE WriteOn(_, _, _)
\* A write operation arriving at backend b: a leaf performs it (a testFs
\* panics "not implemented"); a nested overlay gates it and forwards it.
WriteOn(b, op, p) ==
    IF IsLeaf(b)
    THEN [target |-> b[2], err |-> NoErr, panic |-> statErr[b[2]], c |-> <<Call(b, op, p)>>]
    ELSE IF ~Gate(b[2])
    THEN [target |-> 0, err |-> ErrPermission, panic |-> FALSE, c |-> <<Call(b, op, p)>>]
    ELSE IF writeFsPanics(b[2])
    THEN [target |-> 0, err |-> NoErr, panic |-> TRUE, c |-> <<Call(b, op, p)>>]
    ELSE [WriteOn(writeFs(b[2]), op, p) EXCEPT !.c = <<Call(b, op, p)>> \o @]

\* The operation refused or failed before it reached a leaf.
WriteNone(base, e, pan, c) ==
    /\ last' = [base EXCEPT !.err = e, !.panic = pan]
    /\ calls' = c
    /\ UNCHANGED <<kind, list>>

\* The operation performed by leaf l.
WriteLeaf(base, op, l, p, p2, e, c) ==
    /\ last' = [base EXCEPT !.err = e.err, !.owner = FsB(l),
                            !.ret = IF op \in {"Create", "OpenFile"} /\ e.err = NoErr
                                    THEN [t |-> "file", id |-> l] ELSE NilH]
    /\ calls' = c
    /\ kind' = IF op = "Rename"
               THEN [kind EXCEPT ![l] = [@ EXCEPT ![p] = e.k, ![p2] = e.k2]]
               ELSE [kind EXCEPT ![l][p] = e.k]
    /\ list' = IF op = "Rename" /\ e.err = NoErr
               THEN [list EXCEPT ![l] = [@ EXCEPT ![p] = <<>>, ![p2] = list[l][p]]]
               ELSE IF e.clear THEN [list EXCEPT ![l][p] = <<>>]
               ELSE list

WriteDone(base, op, p, p2, flag, w) ==
    IF w.target = 0 \/ w.panic THEN WriteNone(base, w.err, w.panic, w.c)
    ELSE WriteLeaf(base, op, w.target, p, p2,
                   LeafWrite(op, flag, kind[w.target][p],
                             kind[w.target][IF op = "Rename" THEN p2 ELSE p]),
                   w.c)

\* Mutant of WriteAs: writeFs() is evaluated before the permission check.
WriteAsTargetFirst(base, op, o, p, p2, flag) ==
    IF writeFsPanics(o) THEN WriteNone(base, NoErr, TRUE, <<>>)
    ELSE IF ~Gate(o) THEN WriteNone(base, ErrPermission, FALSE, <<>>)
    ELSE WriteDone(base, op, p, p2, flag, WriteOn(writeFs(o), op, p))
\* The shape all write operations of the facade share: the permission check,
\* writeFs, then the same operation on the first backend.
WriteAs(base, op, o, p, p2, flag) ==
    IF ~Gate(o) THEN WriteNone(base, ErrPermission, FALSE, <<>>)
    ELSE IF writeFsPanics(o) THEN WriteNone(base, NoErr, TRUE, <<>>)
    ELSE WriteDone(base, op, p, p2, flag, WriteOn(writeFs(o), op, p))

Write(op, o, p, p2, flag) ==
    WriteAs([NoLast EXCEPT !.op = op, !.o = o, !.p = p, !.p2 = p2, !.flag = flag],
            op, o, p, p2, flag)

WriteFrame == UNCHANGED <<statErr, arrays, ofs, dirs, pool, live, closed, acc>>

Chmod(o, name) == Write("Chmod", o, name, "", {}) /\ WriteFrame
Chown(o, name) == Write("Chown", o, name, "", {}) /\ WriteFrame
Chtimes(o, name) == Write("Chtimes", o, name, "", {}) /\ WriteFrame
Mkdir(o, name) == Write("Mkdir", o, name, "", {}) /\ WriteFrame
MkdirAll(o, name) == Write("MkdirAll", o, name, "", {}) /\ WriteFrame
Remove(o, name) == Write("Remove", o, name, "", {}) /\ WriteFrame
RemoveAll(o, name) == Write("RemoveAll", o, name, "", {}) /\ WriteFrame
Rename(o, oldname, newname) == Write("Rename", o, oldname, newname, {}) /\ WriteFrame
Create(o, name) == Write("Create", o, name, "", {}) /\ WriteFrame

\* Mutant of WantsWrite: the mask takes in O_EXCL as well.
WantsWriteOnExcl(flag) == flag \cap (WriteFlags \cup {"O_EXCL"}) # {}
\* Mutant of WantsWrite: every flag value takes the write path.
WantsWriteAlways(flag) == TRUE
\* flag&(O_WRONLY|O_RDWR|O_APPEND|O_CREATE|O_TRUNC) != 0
WantsWrite(flag) == flag \cap WriteFlags # {}

\* OverlayFs.OpenFile: the write path only with a write flag, else Open.
OpenFile(o, name, flag) ==
    IF WantsWrite(flag)
    THEN Write("OpenFile", o, name, "", flag) /\ WriteFrame
    ELSE OpenAs("OpenFile", flag, o, name)

\* ------------------------------------------------------------ construction
\* New: the overlay takes opts.Fss as it is (a slice literal: cap = len).
NewOfs(a, n, fw) == [arr |-> a, len |-> n, firstWritable |-> fw, mergeDirs |-> "default"]

\* append(s, x...) of the Go runtime on a slice of capacity cap holding n
\* elements: in place when they fit, else a new array of the grown capacity.
GrownCap(cap, need) == IF need > 2 * cap THEN need ELSE 2 * cap
Pad(s, n) == s \o [i \in 1..(n - Len(s)) |-> NilB]

\* OverlayFs.New as an action.
New(fss, fw) ==
    /\ Len(ofs) < MaxOfs
    /\ arrays' = Append(arrays, fss)
    /\ ofs' = Append(ofs, NewOfs(Len(arrays) + 1, Len(fss), fw))
    /\ last' = [NoLast EXCEPT !.op = "New", !.o = Len(ofs) + 1]
    /\ calls' = <<>>
    /\ UNCHANGED <<kind, list, statErr, dirs, pool, live, closed, acc>>

\* Mutant of Appended: the copy is made as New makes an overlay from options
\* left at their defaults.
AppendedDefaults(h, a, n) == NewOfs(a, n, FALSE)
\* The copy of the receiver that Append returns, with its new slice header.
Appended(h, a, n) == [h EXCEPT !.arr = a, !.len = n]

\* OverlayFs.Append (value receiver: the copy gets the appended slice header).
AppendFs(o, fss) ==
    LET a == ofs[o].arr
        n == ofs[o].len
        cap == Len(arrays[a])
        need == n + Len(fss)
        inPlace == need <= cap
        written == [i \in 1..cap |-> IF i > n /\ i <= need THEN fss[i - n] ELSE arrays[a][i]]
        fresh == Pad(SubSeq(arrays[a], 1, n) \o fss, GrownCap(cap, need))
    IN  /\ Len(ofs) < MaxOfs
        /\ arrays' = IF inPlace THEN [arrays EXCEPT ![a] = written] ELSE Append(arrays, fresh)
        /\ ofs' = Append(ofs, Appended(ofs[o], IF inPlace THEN a ELSE Len(arrays) + 1, need))
        /\ last' = [NoLast EXCEPT !.op = "Append", !.o = o, !.d = Len(ofs) + 1, !.fss = fss]
        /\ calls' = <<>>
        /\ UNCHANGED <<kind, list, statErr, dirs, pool, live, closed, acc>>

\* The iterator calls a program makes on an overlay it holds.
IterDone(op, o, i, b, n) ==
    /\ last' = [NoLast EXCEPT !.op = op, !.o = o, !.d = i, !.owner = b, !.n = n]
    /\ calls' = <<>>
    /\ UNCHANGED <<kind, list, statErr, arrays, ofs, dirs, pool, live, closed, acc>>
\* ofs.Filesystem(i)
FilesystemAt(o, i) == IterDone("Filesystem", o, i, Filesystem(o, i), 0)
\* ofs.NumFilesystems()
NumFilesystemsOf(o) == IterDone("NumFilesystems", o, 0, NilB, NumFilesystems(o))

\* ----------------------------------------------------- directory merging
\* A Go slice of directory entries: its backing array (length = capacity)
\* and its length.
Sl(buf, n) == [buf |-> buf, len |-> n]
Elems(sl) == SubSeq(sl.buf, 1, sl.len)
PadEntries(s, n) == s \o [i \in 1..(n - Len(s)) |-> NilEntry]
\* append(lofi, e): in place when capacity is left, else into a grown array.
AppendEntry(sl, e) ==
    IF sl.len < Len(sl.buf) THEN Sl([sl.buf EXCEPT ![sl.len + 1] = e], sl.len + 1)
    ELSE Sl(PadEntries(Append(Elems(sl), e), GrownCap(Len(sl.buf), sl.len + 1)), sl.len + 1)

\* Mutant of MergeOne: no name check, every entry is appended.
MergeOneNoDedup(sl, e) == AppendEntry(sl, e)
\* One turn of defaultDirMerger's outer loop: e is appended unless an entry
\* of lofi (as grown so far) has its name.
MergeOne(sl, e) ==
    IF \E j \in 1..sl.len : sl.buf[j].name = e.name THEN sl ELSE AppendEntry(sl, e)

\* Mutant of mergeFrom: names are looked up in lofi as it was passed in, not
\* as grown by the entries appended so far.
mergeFromAsPassed(sl, bofi, i) ==
    Sl(Elems(sl) \o SelectSeq(bofi, LAMBDA e : \A j \in 1..sl.len : sl.buf[j].name # e.name),
       sl.len + Len(SelectSeq(bofi, LAMBDA e : \A j \in 1..sl.len : sl.buf[j].name # e.name)))
RECURSIVE mergeFrom(_, _, _)
mergeFrom(sl, bofi, i) ==
    IF i > Len(bofi) THEN sl ELSE mergeFrom(MergeOne(sl, bofi[i]), bofi, i + 1)
\* Mutant of defaultDirMerger: nothing is merged in.
mergerKeepsLower(lofi, bofi) == lofi
\* defaultDirMerger
defaultDirMerger(lofi, bofi) == mergeFrom(lofi, bofi, 1)

\* ------------------------------------------- reading a backend's directory
RECURSIVE ListOf(_, _), listFold(_, _, _, _), ListNext(_, _, _, _, _)
Listed(e, es, pan) == [err |-> e, es |-> es, panic |-> pan]
\* A leaf: Open(name), then ReadDir(-1) on its handle (a testFs panics).
LeafList(l, name) ==
    IF statErr[l] THEN Listed(NoErr, <<>>, TRUE)
    ELSE IF kind[l][name] = "none" THEN Listed(ErrNotExist, <<>>, FALSE)
    ELSE IF kind[l][name] = "file" THEN Listed(ErrNotDir, <<>>, FALSE)
    ELSE Listed(NoErr, [i \in 1..Len(list[l][name]) |-> [name |-> list[l][name][i], fs |-> l]],
                FALSE)
\* What ReadDir(-1) gives on a nested overlay's merged Dir, from owner i on.
listFold(owners, i, name, sl) ==
    IF i > Len(owners) THEN Listed(NoErr, Elems(sl), FALSE)
    ELSE ListNext(owners, i, name, sl, ListOf(owners[i], name))
ListNext(owners, i, name, sl, r) ==
    IF r.err # NoErr \/ r.panic THEN Listed(r.err, <<>>, r.panic)
    ELSE listFold(owners, i + 1, name, defaultDirMerger(sl, r.es))
\* A nested overlay: its Open(name), ReadDir(-1) on what that returns, Close
\* (the Dir it takes from the pool for this goes back before the call ends).
NestedList(s, owners, name) ==
    IF s.r.err # NoErr THEN Listed(s.r.err, <<>>, FALSE)
    ELSE IF s.r.fi.kind # "dir" THEN Listed(ErrNotDir, <<>>, FALSE)
    ELSE IF Len(owners) = 0 THEN Listed(ErrNotExist, <<>>, FALSE)
    ELSE IF Len(owners) = 1 THEN ListOf(owners[1], name)
    ELSE listFold(owners, 1, name, Sl(<<>>, 0))
\* readDir's afs.Open(d.name) and ReadDir(-1) for one owner of a Dir.
ListOf(b, name) ==
    IF IsLeaf(b) THEN LeafList(b[2], name)
    ELSE NestedList(stat(b[2], name, FALSE), collectDirs(b[2], name).owners, name)

\* ------------------------------------------------------------ Dir.ReadDir
RECURSIVE popFrom(_, _, _, _), PopNext(_, _, _, _, _)
\* The loop over d.fss of ReadDir: each owner's entries merged into d.fis;
\* the first failure ends it, d.fis staying as merged so far.
popFrom(sl, fss, i, name) ==
    IF i > Len(fss) THEN [sl |-> sl, err |-> NoErr, panic |-> FALSE]
    ELSE PopNext(sl, fss, i, name, ListOf(fss[i], name))
PopNext(sl, fss, i, name, r) ==
    IF r.err # NoErr \/ r.panic THEN [sl |-> sl, err |-> r.err, panic |-> r.panic]
    ELSE popFrom(defaultDirMerger(sl, r.es), fss, i + 1, name)

Ret(d, es, e, pan) == [d |-> d, entries |-> es, err |-> e, panic |-> pan]

\* if n > len(d.fis) { n = len(d.fis) }
Clamp(n, d) == IF n > d.len THEN d.len ELSE n

\* fis[:n] and the deferred d.offset += n: a reslice within the capacity
\* left after the offset, a panic beyond it (the deferred add still runs).
Take(d, m) ==
    IF m > Len(d.buf) - d.offset THEN Ret([d EXCEPT !.offset = @ + m], <<>>, NoErr, TRUE)
    ELSE Ret([d EXCEPT !.offset = @ + m], SubSeq(d.buf, d.offset + 1, d.offset + m), NoErr,
             FALSE)

\* ReadDir from fis := d.fis[d.offset:] on (a panic when offset > len).
Page(d, n) ==
    IF d.offset > d.len THEN Ret(d, <<>>, NoErr, TRUE)
    ELSE IF n <= 0
    THEN IF d.offset > 0 /\ d.len - d.offset = 0
         THEN Ret([d EXCEPT !.err = ErrEOF], <<>>, ErrEOF, FALSE)
         ELSE Ret([d EXCEPT !.err = ErrEOF], SubSeq(d.buf, d.offset + 1, d.len), NoErr, FALSE)
    ELSE IF d.len - d.offset = 0 THEN Ret([d EXCEPT !.err = ErrEOF], <<>>, ErrEOF, FALSE)
    ELSE Take(d, Clamp(n, d))

Populated(d, n, pr) ==
    IF pr.err # NoErr \/ pr.panic
    THEN Ret([d EXCEPT !.buf = pr.sl.buf, !.len = pr.sl.len], <<>>, pr.err, pr.panic)
    ELSE Page([d EXCEPT !.buf = pr.sl.buf, !.len = pr.sl.len], n)

\* Dir.ReadDir as a function of the Dir and n.
ReadDirOp(d, n) ==
    IF d.err # NoErr THEN Ret(d, <<>>, d.err, FALSE)
    ELSE IF isClosed(d) THEN Ret(d, <<>>, ErrClosed, FALSE)
    ELSE IF d.offset = 0 THEN Populated(d, n, popFrom(Sl(d.buf, d.len), d.fss, 1, d.name))
    ELSE Page(d, n)

\* The call runs the loop over d.fss (no cached error, not closed, offset 0),
\* which opens and reads the first owner at least.
Populates(d) == d.err = NoErr /\ ~isClosed(d) /\ d.offset = 0

NChoices == {-1, 0} \cup 1..MaxN

\* ---------------------------------------- the backend calls of a populate
\* Mutant of handleOps: Close is called after a successful ReadDir only, not
\* deferred.
handleOpsNoDefer(b, name, ok) ==
    IF ok THEN <<Call(b, "ReadDir", name), Call(b, "Close", name)>>
    ELSE <<Call(b, "ReadDir", name)>>
\* readDir on the handle f of backend b: defer f.Close(), then ReadDir(-1),
\* which succeeds (ok) or fails; the deferred Close runs either way.
handleOps(b, name, ok) == <<Call(b, "ReadDir", name), Call(b, "Close", name)>>

\* The calls on the handle that a backend's Open returned, when it returned one.
OnHandle(bo, name) ==
    bo.c \o (IF bo.err = NoErr /\ bo.h.t \in {"file", "fsdir"}
             THEN handleOps(FsB(bo.h.id), name, bo.h.t = "fsdir") ELSE <<>>)

RECURSIVE readDirCalls(_, _), nestedCalls(_, _, _, _), popCalls(_, _, _)
\* readDir(fs, nil) for owner b: afs.Open(d.name) and, when that gives a
\* handle, the calls on it. A nested overlay's Open stats and collects, and
\* gives its owner's handle or a merged Dir of its own, whose ReadDir(-1)
\* runs the same loop over its owners and whose Close calls no backend.
readDirCalls(b, name) ==
    IF IsLeaf(b)
    THEN <<Call(b, "Open", name)>> \o
         (IF statErr[b[2]] \/ kind[b[2]][name] = "none" THEN <<>>
          ELSE handleOps(b, name, kind[b[2]][name] = "dir"))
    ELSE nestedCalls(b, name, stat(b[2], name, FALSE), collectDirs(b[2], name))
nestedCalls(b, name, s, col) ==
    <<Call(b, "Open", name)>> \o s.c \o
    (IF s.r.err # NoErr THEN <<>>
     ELSE IF s.r.fi.kind # "dir" THEN OnHandle(BackendOpen(s.r.owner, name), name)
     ELSE col.c \o
          (IF Len(col.owners) = 0 THEN <<>>
           ELSE IF Len(col.owners) = 1 THEN OnHandle(BackendOpen(col.owners[1], name), name)
           ELSE <<Call(b, "ReadDir", name)>> \o popCalls(col.owners, 1, name)
                \o <<Call(b, "Close", name)>>))
\* The loop over d.fss of ReadDir, ending at the first owner that fails.
popCalls(fss, i, name) ==
    IF i > Len(fss) THEN <<>>
    ELSE readDirCalls(fss[i], name) \o
         (IF ListOf(fss[i], name).err # NoErr \/ ListOf(fss[i], name).panic THEN <<>>
          ELSE popCalls(fss, i + 1, name))
\* The backend calls of one ReadDir call on d.
ReadCalls(d) == IF Populates(d) THEN popCalls(d.fss, 1, d.name) ELSE <<>>

\* via tells which handle the caller uses: one it holds open ("live"), or
\* one it has called Close on ("closed").
Via == {"live", "closed"}
Held(id, via) == IF via = "live" THEN id \in live ELSE id \in closed

ReadDone(op, id, n, via, r, es) ==
    /\ Held(id, via)
    /\ dirs' = [dirs EXCEPT ![id] = r.d]
    /\ last' = [NoLast EXCEPT !.op = op, !.d = id, !.n = n, !.via = via, !.entries = es,
                              !.err = r.err, !.panic = r.panic]
    /\ acc' = IF via = "live"
              THEN [acc EXCEPT ![id] =
                       [got |-> @.got \o r.entries, reads |-> IF @.reads < 2 THEN @.reads + 1 ELSE 2,
                        k |-> IF op = "ReadDir" /\ n >= 1 /\ (@.reads = 0 \/ @.k = n)
                              THEN n ELSE -1,
                        eof |-> r.err = ErrEOF, panic |-> @.panic \/ r.panic]]
              ELSE acc
    /\ calls' = ReadCalls(dirs[id])
    /\ UNCHANGED <<kind, list, statErr, arrays, ofs, pool, live, closed>>

\* Dir.ReadDir
ReadDir(id, n, via) ==
    ReadDone("ReadDir", id, n, via, ReadDirOp(dirs[id], n), ReadDirOp(dirs[id], n).entries)

HasNil(es) == \E i \in 1..Len(es) : es[i] = NilEntry
\* The loop of Readdir over the entries: Info() of each (a nil entry panics).
Infos(r) == IF r.err = NoErr /\ ~r.panic /\ HasNil(r.entries)
            THEN [r EXCEPT !.entries = <<>>, !.panic = TRUE] ELSE r
\* Dir.Readdir
Readdir(id, n, via) ==
    ReadDone("Readdir", id, n, via, Infos(ReadDirOp(dirs[id], n)),
             Infos(ReadDirOp(dirs[id], n)).entries)

NamesOf(es) == [i \in 1..Len(es) |-> [name |-> es[i].name, fs |-> 0]]
\* Dir.Readdirnames: closed check, ReadDir, then Name() of each entry.
ReaddirnamesOp(d, n) ==
    IF isClosed(d) THEN Ret(d, <<>>, ErrClosed, FALSE) ELSE Infos(ReadDirOp(d, n))
Readdirnames(id, n, via) ==
    ReadDone("Readdirnames", id, n, via, ReaddirnamesOp(dirs[id], n),
             NamesOf(ReaddirnamesOp(dirs[id], n).entries))

\* Dir.Stat: closed, else the first owner's Stat of the name.
DirStatDone(id, via, s) ==
    /\ Held(id, via)
    /\ last' = [NoLast EXCEPT !.op = "DirStat", !.d = id, !.via = via, !.fi = s.r.fi,
                              !.err = s.r.err]
    /\ calls' = s.c
    /\ UNCHANGED <<kind, list, statErr, arrays, ofs, dirs, pool, live, closed, acc>>
DirStat(id, via) ==
    DirStatDone(id, via,
                IF isClosed(dirs[id]) THEN [r |-> StatRes(NilB, NilFi, FALSE, ErrClosed), c |-> <<>>]
                ELSE FsStat(dirs[id].fss[1], dirs[id].name))

\* -------------------------------------------------- content operations
ContentOps == {"Read", "ReadAt", "Seek", "Write", "WriteAt", "Sync", "Truncate", "WriteString"}
\* Dir.notSupported: the message, as its fixed text and the quoted name.
notSupported(d) == [text |-> "operation not supported on directory", name |-> d.name]

\* Mutant of ContentDone: the operation returns an error instead.
ContentDoneQuiet(op, id, via, msg) ==
    /\ Held(id, via)
    /\ last' = [NoLast EXCEPT !.op = op, !.d = id, !.via = via, !.err = ErrPermission]
    /\ calls' = <<>>
    /\ UNCHANGED <<kind, list, statErr, arrays, ofs, dirs, pool, live, closed, acc>>
\* panic(d.notSupported()): nothing is returned and nothing is assigned; the
\* panic value is kept as p2 (text) and p (name) of the call's record.
ContentDone(op, id, via, msg) ==
    /\ Held(id, via)
    /\ last' = [NoLast EXCEPT !.op = op, !.d = id, !.via = via, !.panic = TRUE,
                              !.p2 = msg.text, !.p = msg.name]
    /\ calls' = <<>>
    /\ UNCHANGED <<kind, list, statErr, arrays, ofs, dirs, pool, live, closed, acc>>
\* Dir.Read, ReadAt, Seek, Write, WriteAt, Sync, Truncate, WriteString
Content(op, id, via) == ContentDone(op, id, via, notSupported(dirs[id]))

\* ---------------------------------------------------------- initial states
Leaves(a, b) == [i \in 1..(b - a + 1) |-> FsB(a + i - 1)]

\* The overlays a program builds with New before it uses them: one overlay
\* over all leaves; an overlay nested first or last in another; an empty one.
FlatConfig(fw) ==
    [arrays |-> <<Leaves(1, NumLeaf)>>, ofs |-> <<NewOfs(1, NumLeaf, fw[1])>>]
NestedFirstConfig(fw) ==
    [arrays |-> <<Leaves(1, NumLeaf - 1), <<OfsB(1), FsB(NumLeaf)>>>>,
     ofs |-> <<NewOfs(1, NumLeaf - 1, fw[1]), NewOfs(2, 2, fw[2])>>]
NestedLastConfig(fw) ==
    [arrays |-> <<Leaves(2, NumLeaf), <<FsB(1), OfsB(1)>>>>,
     ofs |-> <<NewOfs(1, NumLeaf - 1, fw[1]), NewOfs(2, 2, fw[2])>>]
EmptyConfig(fw) ==
    [arrays |-> << <<>> >>, ofs |-> <<NewOfs(1, 0, fw[1])>>]
\* Two overlays built over the same first backend.
SharedFirstConfig(fw) ==
    [arrays |-> <<Leaves(1, NumLeaf - 1), <<FsB(1), FsB(NumLeaf)>>>>,
     ofs |-> <<NewOfs(1, NumLeaf - 1, fw[1]), NewOfs(2, 2, fw[2])>>]
Configs(fws) ==
    UNION {{FlatConfig(fw), NestedFirstConfig(fw), NestedLastConfig(fw), EmptyConfig(fw)} :
           fw \in fws}

\* The listing a leaf gives for a directory it holds, unless stated otherwise.
DefaultList(l) == IF l % 2 = 1 THEN <<"x", "y">> ELSE <<"x", "z">>
ListsFor(k, choose) ==
    [l \in Leaf |-> [p \in Paths |-> IF k[l][p] = "dir" THEN choose[l] ELSE <<>>]]

InitCursors ==
    /\ dirs = <<>>
    /\ pool = [i \in DirId |-> 0]
    /\ live = {}
    /\ closed = {}
    /\ acc = [i \in DirId |-> NoAcc]
    /\ last = NoLast
    /\ calls = <<>>

\* Backends as the read-side operations find them: "d" is absent, a file or a
\* directory in each leaf, and at most one leaf is a failing one (a testFs,
\* which holds nothing).
Init ==
    /\ kind \in {k \in [Leaf -> [Paths -> Kinds]] : \A l \in Leaf : k[l]["e"] = "none"}
    /\ list = ListsFor(kind, [l \in Leaf |-> DefaultList(l)])
    /\ statErr \in {f \in [Leaf -> BOOLEAN] :
                        /\ Cardinality({l \in Leaf : f[l]}) <= 1
                        /\ \A l \in Leaf : f[l] => \A p \in Paths : kind[l][p] = "none"}
    /\ \E cfg \in Configs({<<FALSE, FALSE>>}) : arrays = cfg.arrays /\ ofs = cfg.ofs
    /\ InitCursors

Next ==
    \/ \E o \in OfsIds, p \in Paths : Stat(o, p)
    \/ \E o \in OfsIds, p \in Paths : LstatIfPossible(o, p)
    \/ \E o \in OfsIds, p \in Paths : Open(o, p)
    \/ \E o \in OfsIds, p \in Paths, flag \in FlagChoices :
           flag \cap WriteFlags = {} /\ OpenFile(o, p, flag)
    \/ \E id \in live : Close(id)

Spec == Init /\ [][Next]_vars

\* ------------------------------------------------- priority order, stated
RECURSIVE FlatFrom(_, _), FlatB(_)
\* The leaves of a backend tree, depth first and left to right.
FlatB(b) == IF IsLeaf(b) THEN <<b[2]>> ELSE FlatFrom(b[2], 1)
FlatFrom(o, i) == IF i > ofs[o].len THEN <<>> ELSE FlatB(Fss(o)[i]) \o FlatFrom(o, i + 1)
FlatLeaves(o) == FlatFrom(o, 1)

Has(l, p) == kind[l][p] # "none"
MinOf(S) == CHOOSE i \in S : \A j \in S : i <= j
\* Positions, in priority order, of the leaves that hold p, and of the failing ones.
Holders(fl, p) == {i \in 1..Len(fl) : Has(fl[i], p)}
Failing(fl) == {i \in 1..Len(fl) : statErr[fl[i]]}
Consulted(l) == \E i \in 1..Len(calls) : calls[i].fs = FsB(l)
FiOf(l, p) == [fs |-> l, kind |-> kind[l][p], name |-> p]

\* C1 (as stated): Stat(p) returns the metadata held by the earliest backend
\* that has p when no earlier backend reports an error other than not-found,
\* and returns not-found when no backend has p.
StatEarliestOrNotFound(fl, p) ==
    /\ (Holders(fl, p) # {} /\ \A j \in Failing(fl) : j > MinOf(Holders(fl, p)))
        => last.err = NoErr /\ last.fi = FiOf(fl[MinOf(Holders(fl, p))], p)
    /\ Holders(fl, p) = {} => last.err = ErrNotExist
C1_StatAsStated ==
    last.op = "Stat" => StatEarliestOrNotFound(FlatLeaves(last.o), last.p)

\* C1 (amended): Stat(p) returns the metadata held by the earliest backend
\* that has p when no earlier backend reports an error other than not-found,
\* and returns not-found when no backend has p and no backend reports an
\* error other than not-found.
StatEarliestOrNotFoundNoError(fl, p) ==
    /\ (Holders(fl, p) # {} /\ \A j \in Failing(fl) : j > MinOf(Holders(fl, p)))
        => last.err = NoErr /\ last.fi = FiOf(fl[MinOf(Holders(fl, p))], p)
    /\ (Holders(fl, p) = {} /\ Failing(fl) = {}) => last.err = ErrNotExist /\ last.fi = NilFi
C1_StatEarliest ==
    last.op = "Stat" => StatEarliestOrNotFoundNoError(FlatLeaves(last.o), last.p)

\* A Stat answered by a backend that is not the first of the list, while a
\* later backend holds the path too, as something else.
C1_Witness ==
    /\ last.op = "Stat" /\ last.err = NoErr
    /\ Cardinality(Holders(FlatLeaves(last.o), last.p)) >= 2
    /\ MinOf(Holders(FlatLeaves(last.o), last.p)) > 1
    /\ \E i \in Holders(FlatLeaves(last.o), last.p) :
           kind[FlatLeaves(last.o)[i]][last.p] # last.fi.kind

FirstAnswer(fl, p) == MinOf(Holders(fl, p) \cup Failing(fl))
Resolving == last.op \in {"Stat", "LstatIfPossible", "Open"}
\* The first backend to answer fails: its error is the result, verbatim, and
\* no backend after it is consulted.
ErrorAborts(fl, p) ==
    (Holders(fl, p) \cup Failing(fl) # {} /\ FirstAnswer(fl, p) \in Failing(fl)) =>
        /\ last.err = StatError(fl[FirstAnswer(fl, p)])
        /\ last.ret = NilH /\ last.fi = NilFi
        /\ \A j \in 1..Len(fl) : j > FirstAnswer(fl, p) => ~Consulted(fl[j])
OpensDirectory(fl, p) == last.op = "Open" /\ kind[fl[FirstAnswer(fl, p)]][p] = "dir"

\* C2 (as stated): for Stat, LstatIfPossible and Open the first backend whose
\* lookup fails with an error other than not-found aborts the search, its
\* error is returned and no later backend is consulted; a failing backend
\* after the first backend that has the path is never consulted and its error
\* is never returned.
LaterErrorUnseen(fl, p) ==
    (Holders(fl, p) # {} /\ FirstAnswer(fl, p) \in Holders(fl, p)) =>
        \A j \in Failing(fl) : ~Consulted(fl[j]) /\ last.err # StatError(fl[j])
LaterErrorDropped(fl, p) ==
    (Holders(fl, p) # {} /\ FirstAnswer(fl, p) \in Holders(fl, p)) =>
        \A j \in Failing(fl) :
            /\ last.err # StatError(fl[j])
            /\ Consulted(fl[j]) <=> OpensDirectory(fl, p)
InitWrite ==
    /\ kind \in {k \in [Leaf -> [Paths -> {"none", "dir"}]] : \A l \in Leaf : k[l]["e"] = "none"}
    /\ list = ListsFor(kind, [l \in Leaf |-> <<>>])
    /\ statErr = [l \in Leaf |-> FALSE]
    /\ \E cfg \in Configs([1..2 -> BOOLEAN]) : arrays = cfg.arrays /\ ofs = cfg.ofs
    /\ InitCursors

NextWrite ==
    \/ \E o \in OfsIds, p \in Paths : Create(o, p)
    \/ \E o \in OfsIds, p \in Paths, flag \in FlagChoices :
           flag \cap WriteFlags # {} /\ OpenFile(o, p, flag)
    \/ \E o \in OfsIds, p \in Paths : Remove(o, p)
    \/ \E o \in OfsIds, p \in Paths : RemoveAll(o, p)
    \/ \E o \in OfsIds, p \in Paths, q \in Paths : p # q /\ Rename(o, p, q)
    \/ \E o \in OfsIds, p \in Paths : Mkdir(o, p)
    \/ \E o \in OfsIds, p \in Paths : MkdirAll(o, p)
    \/ \E o \in OfsIds, p \in Paths : Chmod(o, p)
    \/ \E o \in OfsIds, p \in Paths : Chown(o, p)
    \/ \E o \in OfsIds, p \in Paths : Chtimes(o, p)
    \/ \E o \in OfsIds, p \in Paths : Stat(o, p)

SpecWrite == InitWrite /\ [][NextWrite]_vars

WriteOps == {"Create", "OpenFile", "Remove", "RemoveAll", "Rename", "Mkdir", "MkdirAll",
             "Chmod", "Chown", "Chtimes"}
\* The last operation was a mutating one (OpenFile: with a write flag).
Wrote(l) == l.op \in WriteOps /\ (l.op = "OpenFile" => l.flag \cap WriteFlags # {})

\* C7: on an overlay without FirstWritable every mutating operation returns
\* the permission error, invokes nothing on any backend and leaves the
\* contents of every backend as they were.
C7_ReadOnlyRefuses ==
    [][(Wrote(last') /\ ~ofs[last'.o].firstWritable) =>
            /\ last'.err = ErrPermission /\ ~last'.panic /\ last'.ret = NilH
            /\ calls' = <<>>
            /\ kind' = kind /\ list' = list]_vars

\* A refused Create of a path that no backend holds, on a non-empty overlay.
C7_Witness ==
    /\ last.op = "Create" /\ last.err = ErrPermission
    /\ ofs[last.o].len > 0 /\ ~ofs[last.o].firstWritable
    /\ \A l \in Leaf : ~Has(l, last.p)

\* The leaves under the backends at index 1 and beyond of overlay o.
RECURSIVE LowerFrom(_, _)
LowerFrom(o, i) ==
    IF i > ofs[o].len THEN {}
    ELSE {FlatB(Fss(o)[i])[k] : k \in 1..Len(FlatB(Fss(o)[i]))} \cup LowerFrom(o, i + 1)
LowerLeaves(o) == LowerFrom(o, 2)

\* C8: on an overlay with FirstWritable and a non-empty list every mutating
\* operation goes to the backend at index 0 as the same operation, with no
\* lookup before it, and no backend at index 1 or beyond is called or changed.
C8_FirstBackendOnly ==
    [][(Wrote(last') /\ ofs[last'.o].firstWritable /\ ofs[last'.o].len > 0) =>
            /\ Len(calls') >= 1
            /\ calls'[1] = Call(Filesystem(last'.o, 0), last'.op, last'.p)
            /\ \A i \in 1..Len(calls') : calls'[i].op = last'.op
            /\ \A l \in LowerLeaves(last'.o) :
                   /\ kind'[l] = kind[l] /\ list'[l] = list[l]
                   /\ \A i \in 1..Len(calls') : calls'[i].fs # FsB(l)]_vars

\* A Remove that fails not-found on the first backend although a backend
\* further down holds the path.
C8_Witness ==
    /\ last.op = "Remove" /\ last.err = ErrNotExist
    /\ ofs[last.o].firstWritable /\ ofs[last.o].len > 1
    /\ \E l \in LowerLeaves(last.o) : Has(l, last.p)

\* C9 (as stated): on an overlay with an empty backend list any write
\* operation panics and does not return the permission error.
C9_AsStated ==
    (Wrote(last) /\ ofs[last.o].len = 0) => last.panic /\ last.err # ErrPermission

\* C9 (amended): on an overlay with an empty backend list a write operation
\* panics when the overlay was built with FirstWritable; without FirstWritable
\* it returns the permission error, the permission check coming first.
C9_EmptyWrite ==
    (Wrote(last) /\ ofs[last.o].len = 0) =>
        /\ ofs[last.o].firstWritable => last.panic /\ last.err = NoErr /\ calls = <<>>
        /\ ~ofs[last.o].firstWritable => ~last.panic /\ last.err = ErrPermission

\* A write on an empty overlay built with FirstWritable has panicked.
C9_Witness ==
    /\ last.op = "Create" /\ last.panic
    /\ ofs[last.o].len = 0 /\ ofs[last.o].firstWritable

\* ------------------------------------------------- the directory machine
\* Listings a leaf may give for the directory "d".
ListMenu == {<<"x", "y">>, <<"z", "x">>}

\* Backends holding "d" as a directory or not at all, each directory with a
\* listing of its own; cursors are opened, read page by page through the
\* handle Open returned, and closed, one cursor at a time.
InitDir ==
    /\ kind \in {k \in [Leaf -> [Paths -> {"none", "dir"}]] : \A l \in Leaf : k[l]["e"] = "none"}
    /\ \E choose \in [Leaf -> ListMenu] :
           /\ \A l \in Leaf : kind[l]["d"] = "none" => choose[l] = <<"x", "y">>
           /\ list = ListsFor(kind, choose)
    /\ statErr = [l \in Leaf |-> FALSE]
    /\ \E cfg \in {FlatConfig(<<FALSE>>), NestedFirstConfig(<<FALSE, FALSE>>),
                   NestedLastConfig(<<FALSE, FALSE>>)} :
           arrays = cfg.arrays /\ ofs = cfg.ofs
    /\ InitCursors

NextDir ==
    \/ \E p \in Paths : live = {} /\ Open(Len(ofs), p)
    \/ \E id \in live, n \in NChoices : ReadDir(id, n, "live")
    \/ \E id \in live, n \in NChoices : Readdir(id, n, "live")
    \/ \E id \in live, n \in NChoices : Readdirnames(id, n, "live")
    \/ \E id \in live : DirStat(id, "live")
    \/ \E id \in live : Close(id)

SpecDir == InitDir /\ [][NextDir]_vars

\* ----------------------------------------------------- merged listings
RECURSIVE Entries(_, _), Kept(_, _, _, _)
NamesIn(es) == {es[i].name : i \in 1..Len(es)}
\* The entries of owner b for a directory: a leaf's own listing with the leaf
\* as origin, a nested overlay's merged listing of its own owners.
Entries(b, name) ==
    IF IsLeaf(b)
    THEN [i \in 1..Len(list[b[2]][name]) |-> [name |-> list[b[2]][name][i], fs |-> b[2]]]
    ELSE Kept(collectDirs(b[2], name).owners, 1, name, <<>>)
\* B1's entries, then for each later owner those of its entries whose name
\* no earlier owner has.
Kept(owners, i, name, sofar) ==
    IF i > Len(owners) THEN sofar
    ELSE Kept(owners, i + 1, name,
              sofar \o SelectSeq(Entries(owners[i], name),
                                 LAMBDA e : e.name \notin NamesIn(sofar)))
Merged(d) == Kept(d.fss, 1, d.name, <<>>)

ReadOps == {"ReadDir", "Readdir", "Readdirnames"}
FirstRead == last.op \in ReadOps /\ last.via = "live" /\ last.d \in live
             /\ acc[last.d].reads = 1

\* C3: the first read of a freshly opened merged cursor, when unpaginated
\* (n <= 0), succeeds and returns the first owner's entries in its order, then
\* each later owner's entries whose name no earlier owner has, each entry
\* being the earliest owner's (Readdirnames returns their names).
C3_UnpaginatedMerge ==
    (FirstRead /\ last.n <= 0) =>
        /\ last.err = NoErr /\ ~last.panic
        /\ last.entries = IF last.op = "Readdirnames" THEN NamesOf(Merged(dirs[last.d]))
                          ELSE Merged(dirs[last.d])

\* A name two owners list was read once, as the earlier owner's entry, and
\* the later owner contributed an entry of its own after it.
C3_Witness ==
    /\ FirstRead /\ last.op = "ReadDir" /\ last.n <= 0
    /\ Len(dirs[last.d].fss) >= 2
    /\ \E i, j \in 1..Len(last.entries) :
           /\ i < j /\ last.entries[i].fs # last.entries[j].fs
           /\ last.entries[i].name \in NamesIn(Entries(FsB(last.entries[j].fs), "d"))

\* What one ReadDir(-1) gives on another fresh cursor of the same path.
Full(d) == ReadDirOp([ZeroDir EXCEPT !.name = d.name, !.fss = d.fss, !.merge = d.merge], -1).entries
IsPrefix(a, b) == Len(a) <= Len(b) /\ a = SubSeq(b, 1, Len(a))
Paged(id) == id \in live /\ acc[id].k >= 1

\* C4: on a cursor read only by ReadDir(k) with one k >= 1, no read fails
\* fatally, the pages read so far concatenate to a prefix of what one
\* ReadDir(-1) on a fresh cursor of the path gives, and to all of it once
\* end-of-entries is reported.
C4_PaginationEquivalence ==
    \A id \in DirId :
        Paged(id) => /\ ~acc[id].panic
                     /\ IsPrefix(acc[id].got, Full(dirs[id]))
                     /\ acc[id].eof => acc[id].got = Full(dirs[id])

\* Every entry of the directory has been returned by earlier reads of the
\* open cursor id.
Drained(id) ==
    /\ id \in live /\ acc[id].reads >= 1 /\ ~acc[id].panic
    /\ \A i \in 1..Len(Full(dirs[id])) :
           \E j \in 1..Len(acc[id].got) : acc[id].got[j] = Full(dirs[id])[i]
ReadOn(id) == last'.op \in ReadOps /\ last'.d = id /\ last'.via = "live"

\* C5: a read on an open cursor whose entries have all been returned gives
\* io.EOF and no entries, and does not fail fatally; so does every read after
\* it until Close.
C5_EndOfEntriesStable ==
    [][\A id \in DirId :
           (Drained(id) /\ ReadOn(id)) =>
               last'.err = ErrEOF /\ last'.entries = <<>> /\ ~last'.panic]_vars

\* ------------------------------------------- use of a cursor after Close
\* As the directory machine, over one flat overlay whose leaves all hold
\* "d", with calls through handles already closed as well.
InitClosed ==
    /\ kind = [l \in Leaf |-> [p \in Paths |-> IF p = "d" THEN "dir" ELSE "none"]]
    /\ list = ListsFor(kind, [l \in Leaf |-> DefaultList(l)])
    /\ statErr = [l \in Leaf |-> FALSE]
    /\ arrays = FlatConfig(<<FALSE>>).arrays /\ ofs = FlatConfig(<<FALSE>>).ofs
    /\ InitCursors

NextClosed ==
    \/ \E p \in Paths : live = {} /\ Open(Len(ofs), p)
    \/ \E id \in DirId, n \in NChoices, via \in Via : ReadDir(id, n, via)
    \/ \E id \in DirId, n \in NChoices, via \in Via : Readdir(id, n, via)
    \/ \E id \in DirId, n \in NChoices, via \in Via : Readdirnames(id, n, via)
    \/ \E id \in DirId, via \in Via : DirStat(id, via)
    \/ \E id \in live : Close(id)

SpecClosed == InitClosed /\ [][NextClosed]_vars

CursorOps == ReadOps \cup {"DirStat"}
ThroughClosed == last.op \in CursorOps /\ last.via = "closed"
GivesClosed == last.err = ErrClosed /\ last.entries = <<>> /\ last.fi = NilFi /\ ~last.panic

\* C6 as stated: every call through a handle on which Close has been called
\* returns os.ErrClosed.
C6_AsStated == ThroughClosed => GivesClosed

\* C6: a call through a handle on which Close has been called returns
\* os.ErrClosed as long as no later Open holds the handle's Dir object.
C6_ClosedUntilReused == (ThroughClosed /\ last.d \notin live) => GivesClosed

\* A read through a closed handle gave os.ErrClosed while another cursor,
\* opened since, is held open.
C6_Witness ==
    /\ ThroughClosed /\ last.op = "ReadDir" /\ last.d \notin live /\ GivesClosed
    /\ live # {}

\* ------------------------------------------------------ the Append machine
\* Backend lists handed to New (slice literals).
NewChoices == {Leaves(1, n) : n \in 0..2}
\* Backends handed to Append: one leaf, or the last two leaves at once.
AppendChoices == {<<FsB(l)>> : l \in Leaf} \cup {Leaves(NumLeaf - 1, NumLeaf)}

\* No overlay yet; the program builds overlays with New and derives others
\* from them with Append, and stats paths through any of them. Every leaf
\* holds "d" as a file.
InitAppend ==
    /\ kind = [l \in Leaf |-> [p \in Paths |-> IF p = "d" THEN "file" ELSE "none"]]
    /\ list = [l \in Leaf |-> [p \in Paths |-> <<>>]]
    /\ statErr = [l \in Leaf |-> FALSE]
    /\ arrays = <<>> /\ ofs = <<>>
    /\ InitCursors

NextAppend ==
    \/ \E fss \in NewChoices, fw \in BOOLEAN : New(fss, fw)
    \/ \E o \in OfsIds, fss \in AppendChoices : AppendFs(o, fss)
    \/ \E o \in OfsIds, p \in Paths : Stat(o, p)

SpecAppend == InitAppend /\ [][NextAppend]_vars

\* C10: no step changes the backend list of an overlay that exists before
\* it, in length, content or order.
C10_AppendLeavesOthersAlone ==
    [][\A o \in OfsIds :
           SubSeq(arrays'[ofs'[o].arr], 1, ofs'[o].len) = Fss(o)]_vars

\* C11: the overlay Append returns has the receiver's backends followed by
\* the appended ones in order, and the receiver's write-enabled flag and
\* merge strategy; when the receiver is empty and write-enabled, the write
\* target of the returned overlay is the first appended backend.
C11_AppendReturns ==
    [][\A o \in OfsIds, n \in 1..MaxOfs :
           (last'.op = "Append" /\ last'.o = o /\ last'.d = n) =>
               /\ Fss(n)' = Fss(o) \o last'.fss
               /\ ofs'[n].firstWritable = ofs[o].firstWritable
               /\ ofs'[n].mergeDirs = ofs[o].mergeDirs
               /\ (ofs[o].len = 0 /\ ofs[o].firstWritable) =>
                      /\ ~writeFsPanics(n)'
                      /\ writeFs(n)' = last'.fss[1]]_vars

\* Append on an empty write-enabled overlay has returned an overlay whose
\* write target is the appended backend.
C11_Witness ==
    /\ last.op = "Append" /\ ofs[last.o].len = 0 /\ ofs[last.o].firstWritable
    /\ ofs[last.d].firstWritable /\ writeFs(last.d) = last.fss[1]

\* C12: a successful LstatIfPossible(p) has called LstatIfPossible(p) on
\* the backend that owns p (every backend here advertises it), and no
\* backend's regular Stat.
C12_LstatUsesLightweight ==
    (last.op = "LstatIfPossible" /\ last.err = NoErr) =>
        /\ \E i \in 1..Len(calls) : calls[i] = Call(FsB(last.fi.fs), "LstatIfPossible", last.p)
        /\ \A i \in 1..Len(calls) : calls[i].op # "Stat"

\* ------------------------------------------------------ the nesting machine
\* Overlay 1 lies directly over all leaves; overlay 2 has overlay 1 as its
\* single backend.
WrappedConfig(fw) ==
    [arrays |-> <<Leaves(1, NumLeaf), <<OfsB(1)>>>>,
     ofs |-> <<NewOfs(1, NumLeaf, fw[1]), NewOfs(2, 1, fw[2])>>]

\* Backends as in Init; paths are resolved through both overlays, directories
\* are opened through the wrapping one and read.
InitNest ==
    /\ kind \in {k \in [Leaf -> [Paths -> Kinds]] : \A l \in Leaf : k[l]["e"] = "none"}
    /\ list = ListsFor(kind, [l \in Leaf |-> DefaultList(l)])
    /\ statErr \in {f \in [Leaf -> BOOLEAN] :
                        /\ Cardinality({l \in Leaf : f[l]}) <= 1
                        /\ \A l \in Leaf : f[l] => \A p \in Paths : kind[l][p] = "none"}
    /\ arrays = WrappedConfig(<<FALSE, FALSE>>).arrays
    /\ ofs = WrappedConfig(<<FALSE, FALSE>>).ofs
    /\ InitCursors

NextNest ==
    \/ \E o \in OfsIds, p \in Paths : Stat(o, p)
    \/ \E p \in Paths : live = {} /\ Open(2, p)
    \/ \E id \in live, n \in NChoices : ReadDir(id, n, "live")
    \/ \E id \in live, n \in NChoices : Readdirnames(id, n, "live")
    \/ \E id \in live : Close(id)

SpecNest == InitNest /\ [][NextNest]_vars

\* C13: through the overlay whose single backend is the overlay over L,
\* Stat gives the metadata or error that the overlay over L gives, and the
\* full read of a directory gives the names, in order, that Open and a full
\* read give through the overlay over L.
C13_NestingEquivalence ==
    /\ (last.op = "Stat" /\ last.o = 2) =>
           /\ last.fi = stat(1, last.p, FALSE).r.fi
           /\ last.err = stat(1, last.p, FALSE).r.err
    /\ (FirstRead /\ last.n <= 0) =>
           /\ last.err = NoErr /\ ~last.panic
           /\ ListOf(OfsB(1), dirs[last.d].name).err = NoErr
           /\ NamesOf(last.entries) = NamesOf(ListOf(OfsB(1), dirs[last.d].name).es)

\* A directory held by one leaf only, which the overlay over L opens on that
\* leaf directly, has been read in full through the wrapping overlay.
C13_Witness ==
    /\ FirstRead /\ last.n <= 0 /\ last.entries # <<>>
    /\ Len(collectDirs(1, dirs[last.d].name).owners) = 1

\* --------------------------------------------------------- the Open machine
\* Backends as in Init, without failing ones; paths are opened, at once or
\* in two steps while they are being removed from leaves, and cursors are
\* closed.
InitOpen ==
    /\ kind \in {k \in [Leaf -> [Paths -> Kinds]] : \A l \in Leaf : k[l]["e"] = "none"}
    /\ list = ListsFor(kind, [l \in Leaf |-> DefaultList(l)])
    /\ statErr = [l \in Leaf |-> FALSE]
    /\ \E cfg \in Configs({<<FALSE, FALSE>>}) : arrays = cfg.arrays /\ ofs = cfg.ofs
    /\ InitCursors

NextOpen ==
    \/ \E o \in OfsIds, p \in Paths : Open(o, p)
    \/ \E o \in OfsIds, p \in Paths : OpenStat(o, p)
    \/ \E l \in Leaf, p \in Paths : LeafRemove(l, p)
    \/ OpenCollect
    \/ \E id \in live : Close(id)

SpecOpen == InitOpen /\ [][NextOpen]_vars

\* Open has resolved its path to a directory and collected owners.
OpenedDirectory == last.op = "Open" /\ last.d # 0

InitOpenFile ==
    /\ kind \in {k \in [Leaf -> [Paths -> Kinds]] : \A l \in Leaf : k[l]["e"] = "none"}
    /\ list = ListsFor(kind, [l \in Leaf |-> DefaultList(l)])
    /\ statErr = [l \in Leaf |-> FALSE]
    /\ \E cfg \in Configs([1..2 -> BOOLEAN]) : arrays = cfg.arrays /\ ofs = cfg.ofs
    /\ InitCursors

NextOpenFile ==
    \/ \E o \in OfsIds, p \in Paths : live = {} /\ Open(o, p)
    \/ \E o \in OfsIds, p \in Paths, flag \in FlagChoices : live = {} /\ OpenFile(o, p, flag)
    \/ \E id \in live : Close(id)

SpecOpenFile == InitOpenFile /\ [][NextOpenFile]_vars

\* C15: a step of OpenFile(p, flag) with none of the write flags in flag is
\* a step of Open(p) (same handle, same error, same effect on the pool); it
\* calls no backend's OpenFile and does not end in the permission error of
\* the write gate, whatever the overlay.
C15_OpenFileReadsAsOpen ==
    [][\A o \in OfsIds, p \in Paths, flag \in FlagChoices :
           (/\ flag \cap WriteFlags = {}
            /\ last'.op = "OpenFile" /\ last'.o = o /\ last'.p = p /\ last'.flag = flag) =>
               /\ OpenAs("OpenFile", flag, o, p)
               /\ \A i \in 1..Len(calls') : calls'[i].op # "OpenFile"
               /\ last'.err # ErrPermission]_vars

\* OpenFile with only O_EXCL has opened a path on a read-only overlay and
\* returned a handle.
C15_Witness ==
    /\ last.op = "OpenFile" /\ last.flag = {"O_EXCL"} /\ last.err = NoErr
    /\ ~ofs[last.o].firstWritable /\ last.ret # NilH

\* ------------------------------------------------ the cursor-reuse machine
\* One flat overlay whose leaves all hold the directory "d" (merged listing
\* x, y, z) and whose first two leaves hold the directory "e" (merged listing
\* y, x); cursors on either path are opened, read and closed one after the
\* other, so that a later cursor may be the pooled object of an earlier one.
ReuseList(l, p) ==
    IF p = "d" THEN DefaultList(l)
    ELSE IF l = 1 THEN <<"y">> ELSE IF l = 2 THEN <<"x">> ELSE <<>>

InitReuse ==
    /\ kind = [l \in Leaf |-> [p \in Paths |-> IF p = "d" \/ l <= 2 THEN "dir" ELSE "none"]]
    /\ list = [l \in Leaf |-> [p \in Paths |-> ReuseList(l, p)]]
    /\ statErr = [l \in Leaf |-> FALSE]
    /\ arrays = FlatConfig(<<FALSE>>).arrays /\ ofs = FlatConfig(<<FALSE>>).ofs
    /\ InitCursors

NextReuse ==
    \/ \E p \in Paths : live = {} /\ Open(Len(ofs), p)
    \/ \E id \in live, n \in NChoices : ReadDir(id, n, "live")
    \/ \E id \in live, n \in NChoices : Readdir(id, n, "live")
    \/ \E id \in live, n \in NChoices : Readdirnames(id, n, "live")
    \/ \E id \in live : Close(id)

SpecReuse == InitReuse /\ [][NextReuse]_vars

\* A read through an open handle has returned entries.
ReadReturned == last.op \in ReadOps /\ last.via = "live" /\ last.d \in live /\ ~last.panic
\* Entry e, as the read operation op returns it, is an entry of directory d.
EntryOf(op, e, d) ==
    IF op = "Readdirnames" THEN e.name \in NamesIn(Merged(d))
    ELSE \E i \in 1..Len(Merged(d)) : Merged(d)[i] = e

\* C16: every entry a read of an open cursor returns is an entry of the
\* directory the cursor was opened on, whatever cursors were opened, read and
\* closed before it on the same pooled object.
C16_OnlyOwnEntries ==
    ReadReturned =>
        \A i \in 1..Len(last.entries) :
            last.entries[i] # NilEntry => EntryOf(last.op, last.entries[i], dirs[last.d])

\* ------------------------------------------------- the concurrent machine
\* Threads open the directories "d" and "e" of the cursor-reuse machine on
\* its flat overlay, read them and close them, each thread holding at
\* most one cursor and using it only until its own Close. A thread is known
\* by the cursor it holds open; the steps of different threads interleave at
\* every call. dirPool.Get and dirPool.Put are atomic (sync.Pool), and all a
\* call touches besides the pool is the caller's own Dir.
MaxThreads == 2

InitConc ==
    /\ kind = [l \in Leaf |-> [p \in Paths |-> IF p = "d" \/ l <= 2 THEN "dir" ELSE "none"]]
    /\ list = [l \in Leaf |-> [p \in Paths |-> ReuseList(l, p)]]
    /\ statErr = [l \in Leaf |-> FALSE]
    /\ arrays = FlatConfig(<<FALSE>>).arrays /\ ofs = FlatConfig(<<FALSE>>).ofs
    /\ InitCursors

NextConc ==
    \/ \E o \in OfsIds, p \in Paths : Cardinality(live) < MaxThreads /\ Open(o, p)
    \/ \E id \in live, n \in NChoices : ReadDir(id, n, "live")
    \/ \E id \in live : Readdirnames(id, -1, "live")
    \/ \E id \in live : Close(id)

SpecConc == InitConc /\ [][NextConc]_vars

\* The step is the first read of open cursor id and asks for everything.
FullReadOf(id) ==
    /\ id \in live /\ acc[id].reads = 0
    /\ last'.op \in ReadOps /\ last'.d = id /\ last'.via = "live" /\ last'.n <= 0

\* C17: with threads opening, reading and closing cursors concurrently, an
\* Open never hands out a pooled object that another thread holds open, no
\* open cursor's object sits in the pool, and a thread's full read (one
\* unpaginated read of its fresh cursor) returns the merged listing of the
\* directory that cursor was opened on.
C17_ConcurrentCursors ==
    [][/\ (last'.op = "Open" /\ last'.ret.t = "dir") => last'.ret.id \notin live
       /\ \A id \in live : pool[id] = 0
       /\ \A id \in DirId :
              FullReadOf(id) =>
                  /\ last'.err = NoErr /\ ~last'.panic
                  /\ last'.entries = IF last'.op = "Readdirnames"
                                     THEN NamesOf(Merged(dirs[id])) ELSE Merged(dirs[id])]_vars

\* Two threads hold cursors on different directories at once, one of the
\* objects having served a closed cursor before, and one thread has just
\* read all of "e".
C17_Witness ==
    /\ Cardinality(live) = 2 /\ closed # {}
    /\ dirs[1].name # dirs[2].name
    /\ last.op = "ReadDir" /\ last.n = -1 /\ last.d \in live /\ dirs[last.d].name = "e"
    /\ last.entries = Merged(dirs[last.d])

\* ---------------------------------------------- the content-op machine
\* The cursors of the closed-handle machine, read by ReadDir, with the
\* content operations called through open and through closed handles.
NextContent ==
    \/ \E p \in Paths : live = {} /\ Open(Len(ofs), p)
    \/ \E id \in DirId, n \in NChoices, via \in Via : ReadDir(id, n, via)
    \/ \E id \in DirId, op \in ContentOps, via \in Via : Content(op, id, via)
    \/ \E id \in live : Close(id)

SpecContent == InitClosed /\ [][NextContent]_vars

\* C18: every content operation on a cursor, whatever has been read from it
\* and whether or not it is closed, ends in a panic whose message says the
\* operation is not supported on the directory; it returns no value and no
\* error and changes nothing of any cursor or of the pool.
C18_ContentOpsPanic ==
    [][last'.op \in ContentOps =>
           /\ last'.panic /\ last'.p2 = "operation not supported on directory"
           /\ last'.p = dirs[last'.d].name
           /\ last'.err = NoErr /\ last'.ret = NilH /\ last'.entries = <<>>
           /\ dirs' = dirs /\ pool' = pool /\ live' = live /\ closed' = closed]_vars

\* A content operation was called through a closed handle whose object a
\* later cursor holds partly read.
C18_Witness ==
    /\ last.op \in ContentOps /\ last.via = "closed" /\ last.panic
    /\ last.d \in live /\ dirs[last.d].offset > 0 /\ dirs[last.d].err = NoErr

\* ------------------------------------------------------------ reopening
\* Open cursor id has been read once, by a read of everything.
FullyRead(id) ==
    /\ id \in live /\ acc[id].reads = 1 /\ acc[id].k = -1 /\ ~acc[id].panic
    /\ dirs[id].err = ErrEOF

\* C19: with the backends unchanged, the names a full read of a cursor gives
\* are those a full read gives on a cursor of the same path opened on a new
\* object, whatever the cursor's object served before; two cursors of one
\* path that are open together and fully read give the same names.
C19_ReopenSameNames ==
    \A i \in DirId :
        FullyRead(i) =>
            /\ NamesOf(acc[i].got) = NamesOf(Full(dirs[i]))
            /\ \A j \in DirId :
                   (FullyRead(j) /\ dirs[j].name = dirs[i].name) =>
                       NamesOf(acc[j].got) = NamesOf(acc[i].got)

\* Two cursors of "e" are open and fully read, one on an object that served
\* a cursor of "d" before (its array is longer than "e" needs).
C19_Witness ==
    /\ live = {1, 2} /\ FullyRead(1) /\ FullyRead(2)
    /\ dirs[1].name = "e" /\ dirs[2].name = "e"
    /\ \E i \in live : Len(dirs[i].buf) > 2
    /\ acc[1].got # <<>>

\* ------------------------------------------------ the read-your-writes machine
\* Backends holding "d" as a file, as a directory or not at all, under
\* overlays of every shape and FirstWritable setting, two of them over the
\* same first backend; "d" is created, removed, stat'ed and opened.
InitFresh ==
    /\ kind \in {k \in [Leaf -> [Paths -> Kinds]] : \A l \in Leaf : k[l]["e"] = "none"}
    /\ list = ListsFor(kind, [l \in Leaf |-> DefaultList(l)])
    /\ statErr = [l \in Leaf |-> FALSE]
    /\ \E cfg \in Configs([1..2 -> BOOLEAN]) \cup {SharedFirstConfig(fw) : fw \in [1..2 -> BOOLEAN]} :
           arrays = cfg.arrays /\ ofs = cfg.ofs
    /\ InitCursors

NextFresh ==
    \/ \E o \in OfsIds : Create(o, "d")
    \/ \E o \in OfsIds : Mkdir(o, "d")
    \/ \E o \in OfsIds : Remove(o, "d")
    \/ \E o \in OfsIds : Stat(o, "d")
    \/ \E o \in OfsIds : live = {} /\ Open(o, "d")
    \/ \E id \in live : Close(id)

SpecFresh == InitFresh /\ [][NextFresh]_vars

RECURSIVE TargetLeaf(_)
\* The leaf that b's first backend comes down to (0: none).
TargetLeaf(b) ==
    IF IsLeaf(b) THEN b[2]
    ELSE IF ofs[b[2]].len = 0 THEN 0 ELSE TargetLeaf(writeFs(b[2]))
\* The last call was a Create or Mkdir that leaf l performed successfully.
Made(l) ==
    /\ last.op \in {"Create", "Mkdir"} /\ last.err = NoErr /\ ~last.panic
    /\ last.owner = FsB(l)

\* C20: the Stat or Open of p that follows a successful Create(p) or
\* Mkdir(p), on the overlay written through or on any overlay whose first
\* backend comes down to the same leaf, succeeds and resolves to that
\* overlay's first backend and to what was just made there, whatever the
\* lower backends hold at p.
C20_ReadYourWrites ==
    [][\A o \in OfsIds, l \in Leaf :
           (/\ Made(l) /\ TargetLeaf(OfsB(o)) = l
            /\ last'.op \in {"Stat", "Open"} /\ last'.o = o /\ last'.p = last.p) =>
               /\ last'.err = NoErr /\ ~last'.panic
               /\ last'.op = "Stat" =>
                      /\ last'.fi.fs = l
                      /\ last'.fi.kind = IF last.op = "Create" THEN "file" ELSE "dir"
               /\ last'.op = "Open" =>
                      /\ last'.owner = writeFs(o)
                      /\ last.op = "Create" => last'.ret = [t |-> "file", id |-> l]
                      /\ last.op = "Mkdir" => last'.ret.t \in {"dir", "fsdir"}]_vars

\* A Stat on a read-only overlay has given the file that the first backend,
\* shared with a write-enabled overlay, holds at a path that the overlay's
\* lower backend holds as a directory.
C20_Witness ==
    /\ last.op = "Stat" /\ last.p = "d" /\ last.err = NoErr
    /\ last.fi.kind = "file" /\ last.fi.fs = 1
    /\ Len(ofs) = 2 /\ last.o = 2 /\ ~ofs[2].firstWritable /\ ofs[1].firstWritable
    /\ writeFs(2) = FsB(1) /\ kind[NumLeaf]["d"] = "dir"

\* ------------------------------------------------------ the empty overlay
Lookups == {"Stat", "LstatIfPossible", "Open", "OpenFile"}

\* C21: a lookup (Stat, LstatIfPossible, Open, OpenFile without write flags)
\* on an overlay whose backend list is empty returns the not-found error and
\* nothing else: no handle, no metadata, no panic, no call on any backend.
C21_EmptyNotFound ==
    (/\ last.op \in Lookups /\ last.flag \cap WriteFlags = {}
     /\ ofs[last.o].len = 0) =>
        /\ last.err = ErrNotExist /\ ~last.panic
        /\ last.ret = NilH /\ last.fi = NilFi /\ ~last.ok
        /\ calls = <<>>

\* Open on the empty overlay has returned the not-found error.
C21_Witness ==
    /\ last.op = "Open" /\ ofs[last.o].len = 0 /\ last.err = ErrNotExist
    /\ last.ret = NilH

\* --------------------------------------------------- the iterator machine
\* Indices Filesystem is called with (from 0).
MaxIndex == 4

\* Overlays are built with New and Append as in the append machine, three at
\* most, and enumerated through Filesystem and NumFilesystems.
NextIter ==
    \/ \E fss \in NewChoices, fw \in BOOLEAN : Len(ofs) < MaxOfs - 1 /\ New(fss, fw)
    \/ \E o \in OfsIds, fss \in AppendChoices : Len(ofs) < MaxOfs - 1 /\ AppendFs(o, fss)
    \/ \E o \in OfsIds, i \in 0..MaxIndex : FilesystemAt(o, i)
    \/ \E o \in OfsIds : NumFilesystemsOf(o)

SpecIter == InitAppend /\ [][NextIter]_vars

\* C22: Filesystem(i) returns the backend at position i (from 0) of the
\* overlay's backend list when i is below NumFilesystems() and nil when it
\* is not, whatever the backing array holds past the list's end;
\* NumFilesystems() returns the length of the list.
C22_Iterator ==
    /\ last.op = "Filesystem" =>
           last.owner = IF last.d < Len(Fss(last.o)) THEN Fss(last.o)[last.d + 1] ELSE NilB
    /\ last.op = "NumFilesystems" => last.n = Len(Fss(last.o))

\* Filesystem(i) has returned nil for the first index past the end of a
\* list whose backing array holds another overlay's backend there.
C22_Witness ==
    /\ last.op = "Filesystem" /\ last.d = ofs[last.o].len /\ last.owner = NilB
    /\ Len(arrays[ofs[last.o].arr]) > last.d
    /\ arrays[ofs[last.o].arr][last.d + 1] # NilB

\* ------------------------------------------------------- paginated reads
Min(a, b) == IF a < b THEN a ELSE b
\* The step is ReadDir(n), n >= 1, through the open handle of cursor id,
\* which has no error cached.
PagedReadOf(id, n) ==
    /\ id \in live /\ dirs[id].err = NoErr
    /\ last'.op = "ReadDir" /\ last'.d = id /\ last'.n = n /\ last'.via = "live"
\* Entries of the merged buffer that the cursor has not returned yet, the
\* buffer being the one the call works on.
Remaining(id) == dirs'[id].len - dirs[id].offset

\* C23: ReadDir(n) with n > 0 on an open cursor returns min(n, remaining)
\* entries from the offset on and no error when an entry remains, advances
\* the offset by the number of entries it returned, reports end-of-entries
\* only when none remained, and leaves 0 <= offset <= length of the buffer.
C23_PageBounds ==
    [][\A id \in DirId, n \in 1..MaxN :
           PagedReadOf(id, n) =>
               /\ ~last'.panic
               /\ Remaining(id) >= 1 =>
                      /\ last'.err = NoErr
                      /\ Len(last'.entries) = Min(n, Remaining(id))
                      /\ last'.entries = SubSeq(dirs'[id].buf, dirs[id].offset + 1,
                                                dirs[id].offset + Min(n, Remaining(id)))
               /\ dirs'[id].offset = dirs[id].offset + Len(last'.entries)
               /\ last'.err = ErrEOF => Remaining(id) <= 0
               /\ dirs'[id].offset >= 0 /\ dirs'[id].offset <= dirs'[id].len]_vars

\* ------------------------------------------- errors during owner collection
\* C24: when Open(p) resolves p to a directory and a backend's Stat fails,
\* with an error other than not-found, while the owners are collected, Open
\* returns that error and no handle.
C24_CollectErrorAborts ==
    (/\ last.op = "Open"
     /\ Holders(FlatLeaves(last.o), last.p) # {}
     /\ OpensDirectory(FlatLeaves(last.o), last.p)
     /\ FirstAnswer(FlatLeaves(last.o), last.p) \in Holders(FlatLeaves(last.o), last.p)
     /\ Failing(FlatLeaves(last.o)) # {}) =>
        /\ last.err = StatError(FlatLeaves(last.o)[MinOf(Failing(FlatLeaves(last.o)))])
        /\ last.ret = NilH

\* ----------------------------------------------------- the retry machine
\* A read-only overlay over all leaves, each holding the directory "d", and
\* a write-enabled overlay over the second leaf alone, through which "d" is
\* removed from that leaf and made again while a cursor of the first overlay
\* is open and read.
InitRetry ==
    /\ kind = [l \in Leaf |-> [p \in Paths |-> IF p = "d" THEN "dir" ELSE "none"]]
    /\ list = ListsFor(kind, [l \in Leaf |-> DefaultList(l)])
    /\ statErr = [l \in Leaf |-> FALSE]
    /\ arrays = <<Leaves(1, NumLeaf), <<FsB(2)>>>>
    /\ ofs = <<NewOfs(1, NumLeaf, FALSE), NewOfs(2, 1, TRUE)>>
    /\ InitCursors

NextRetry ==
    \/ live = {} /\ Open(1, "d")
    \/ \E id \in live, n \in NChoices : ReadDir(id, n, "live")
    \/ Remove(2, "d")
    \/ Mkdir(2, "d")
    \/ \E id \in live : Close(id)

SpecRetry == InitRetry /\ [][NextRetry]_vars

\* C25: only the first read of a cursor runs the loop that opens and reads
\* the owners' directories and folds them into the buffer; no later read of
\* the same cursor does, whether the earlier reads succeeded or failed.
C25_PopulatedOnce ==
    [][\A id \in live :
           (/\ last'.op \in ReadOps /\ last'.d = id /\ last'.via = "live"
            /\ acc[id].reads >= 1) => ~Populates(dirs[id])]_vars

\* ------------------------------------------------------ unpaginated reads
\* The step is ReadDir(n), n <= 0, through the open handle of cursor id,
\* which has no error cached and none of whose reads has panicked.
RestReadOf(id) ==
    /\ id \in live /\ dirs[id].err = NoErr /\ ~acc[id].panic
    /\ last'.op = "ReadDir" /\ last'.d = id /\ last'.n <= 0 /\ last'.via = "live"

\* C26: ReadDir(n) with n <= 0 on an open cursor returns the entries from
\* the offset to the end of the buffer and no error, or end-of-entries when
\* earlier paginated reads have consumed every entry; it does not panic, and
\* it leaves the cursor exhausted (io.EOF cached for every later read).
C26_RestOfEntries ==
    [][\A id \in DirId :
           RestReadOf(id) =>
               /\ ~last'.panic
               /\ dirs'[id].err = ErrEOF
               /\ IF dirs[id].offset > 0 /\ Remaining(id) <= 0
                  THEN last'.err = ErrEOF /\ last'.entries = <<>>
                  ELSE /\ last'.err = NoErr
                       /\ last'.entries = SubSeq(dirs'[id].buf, dirs[id].offset + 1,
                                                 dirs'[id].len)]_vars

\* ------------------------------------------------------- the deep machine
\* Backend lists that mix leaves and nested overlays at several positions
\* and depths: [[[fs1, fs2], fs3]] as in TestOpenRecursive, [fs1, [[fs2], fs3]]
\* and [fs1, [fs2], fs3]. The outermost overlay is the last one built.
DeepConfigs ==
    {[arrays |-> <<Leaves(1, 2), <<OfsB(1), FsB(3)>>, <<OfsB(2)>>>>,
      ofs |-> <<NewOfs(1, 2, FALSE), NewOfs(2, 2, FALSE), NewOfs(3, 1, FALSE)>>],
     [arrays |-> << <<FsB(2)>>, <<OfsB(1), FsB(3)>>, <<FsB(1), OfsB(2)>> >>,
      ofs |-> <<NewOfs(1, 1, FALSE), NewOfs(2, 2, FALSE), NewOfs(3, 2, FALSE)>>],
     [arrays |-> << <<FsB(2)>>, <<FsB(1), OfsB(1), FsB(3)>> >>,
      ofs |-> <<NewOfs(1, 1, FALSE), NewOfs(2, 3, FALSE)>>]}

\* No backend fails; "d" is a file, a directory or absent in each leaf.
InitDeep ==
    /\ kind \in {k \in [Leaf -> [Paths -> Kinds]] : \A l \in Leaf : k[l]["e"] = "none"}
    /\ list = ListsFor(kind, [l \in Leaf |-> DefaultList(l)])
    /\ statErr = [l \in Leaf |-> FALSE]
    /\ \E cfg \in DeepConfigs : arrays = cfg.arrays /\ ofs = cfg.ofs
    /\ InitCursors

NextDeep ==
    \/ \E o \in OfsIds, p \in Paths : Stat(o, p)
    \/ \E o \in OfsIds, p \in Paths : live = {} /\ Open(o, p)
    \/ \E id \in live : Close(id)

SpecDeep == InitDeep /\ [][NextDeep]_vars

\* The first leaf, depth first and left to right, that holds p.
FirstHolder(o, p) == FlatLeaves(o)[MinOf(Holders(FlatLeaves(o), p))]

\* C27: with leaves and nested overlays mixed in the backend list at any
\* position and depth, Stat and Open resolve a path to the first leaf that
\* holds it in depth-first, left-to-right order (a nested overlay's leaves
\* all come before its next sibling), and to not-found when no leaf holds it.
C27_DepthFirst ==
    (last.op \in {"Stat", "Open"} /\ last.o # 0) =>
        IF Holders(FlatLeaves(last.o), last.p) = {}
        THEN last.err = ErrNotExist /\ last.ret = NilH /\ last.fi = NilFi
        ELSE /\ last.err = NoErr /\ ~last.panic
             /\ last.op = "Stat" => last.fi = FiOf(FirstHolder(last.o, last.p), last.p)
             /\ last.op = "Open" =>
                    IF kind[FirstHolder(last.o, last.p)][last.p] = "file"
                    THEN last.ret = [t |-> "file", id |-> FirstHolder(last.o, last.p)]
                    ELSE last.ret.t \in {"dir", "fsdir"}

\* As in TestOpenRecursive: through [[[fs1, fs2], fs3]] a file that the
\* innermost overlay's first leaf lacks and fs2 and fs3 hold was opened on fs2.
C27_Witness ==
    /\ Len(ofs) = 3 /\ ofs[3].len = 1 /\ last.op = "Open" /\ last.o = 3
    /\ kind[1][last.p] = "none" /\ kind[2][last.p] = "file" /\ kind[3][last.p] # "none"
    /\ last.ret = [t |-> "file", id |-> 2]

\* ------------------------------------------------- Open by the first owner
\* Backend b holds p as a directory: a leaf does; a nested overlay does when
\* its own resolution of p ends at a directory.
HoldsDir(b, p) ==
    IF IsLeaf(b) THEN kind[b[2]][p] = "dir"
    ELSE /\ Holders(FlatB(b), p) # {}
         /\ FirstAnswer(FlatB(b), p) \in Holders(FlatB(b), p)
         /\ kind[FlatB(b)[FirstAnswer(FlatB(b), p)]][p] = "dir"
\* Open(p) on overlay o succeeded.
Opened == last.op = "Open" /\ last.err = NoErr /\ ~last.panic

\* C28: a successful Open(p) goes by the first leaf that holds p. When that
\* leaf holds a regular file, the file opened on that leaf is returned and
\* no backend after it is consulted. When it holds a directory, the owners
\* are backends that hold p as a directory, every leaf that does is among
\* them, and no leaf that holds p as a regular file is.
C28_FirstOwnerDecides ==
    Opened =>
        IF kind[FirstHolder(last.o, last.p)][last.p] = "file"
        THEN /\ last.ret = [t |-> "file", id |-> FirstHolder(last.o, last.p)]
             /\ last.fss = <<>>
             /\ \A j \in 1..Len(FlatLeaves(last.o)) :
                    j > MinOf(Holders(FlatLeaves(last.o), last.p)) =>
                        ~Consulted(FlatLeaves(last.o)[j])
        ELSE /\ last.ret.t \in {"dir", "fsdir"}
             /\ \A i \in 1..Len(last.fss) : HoldsDir(last.fss[i], last.p)
             /\ \A j \in 1..Len(FlatLeaves(last.o)) :
                    (\E i \in 1..Len(last.fss) : last.fss[i] = FsB(FlatLeaves(last.o)[j]))
                        <=> kind[FlatLeaves(last.o)[j]][last.p] = "dir"

\* A directory was opened as a merged cursor while a leaf after the first
\* owner holds the path as a regular file.
C28_Witness ==
    /\ Opened /\ last.ret.t = "dir" /\ Len(last.fss) >= 2
    /\ \E j \in 1..Len(FlatLeaves(last.o)) : kind[FlatLeaves(last.o)[j]][last.p] = "file"

\* -------------------------------------------------- the repeated-name machine
\* Listings in which a backend repeats a name.
RepeatMenu == {<<"x", "y", "x">>, <<"z", "x", "z">>}

\* As the directory machine, each leaf that holds "d" listing it with a
\* repeated name; the overlays are flat or have a nested overlay, which is
\* collected as an owner together with its own leaves.
InitRepeat ==
    /\ kind \in {k \in [Leaf -> [Paths -> {"none", "dir"}]] : \A l \in Leaf : k[l]["e"] = "none"}
    /\ \E choose \in [Leaf -> RepeatMenu] :
           /\ \A l \in Leaf : kind[l]["d"] = "none" => choose[l] = <<"x", "y", "x">>
           /\ list = ListsFor(kind, choose)
    /\ statErr = [l \in Leaf |-> FALSE]
    /\ \E cfg \in {FlatConfig(<<FALSE>>), NestedFirstConfig(<<FALSE, FALSE>>),
                   NestedLastConfig(<<FALSE, FALSE>>)} :
           arrays = cfg.arrays /\ ofs = cfg.ofs
    /\ InitCursors

NextRepeat ==
    \/ \E p \in Paths : live = {} /\ Open(Len(ofs), p)
    \/ \E id \in live, n \in NChoices : ReadDir(id, n, "live")
    \/ \E id \in live : Close(id)

SpecRepeat == InitRepeat /\ [][NextRepeat]_vars

\* C29: with the default merger, no two entries of a cursor's merged buffer
\* (d.fis up to its length) have the same name, in every state of every
\* cursor, also when a leaf's listing repeats a name and when a nested
\* overlay is an owner next to its own leaves.
C29_NoDuplicateNames ==
    \A id \in 1..Len(dirs) :
        \A i, j \in 1..dirs[id].len :
            i # j => dirs[id].buf[i].name # dirs[id].buf[j].name

\* A populated buffer of three entries on a cursor whose owners are a nested
\* overlay and its leaves, every listing repeating a name.
C29_Witness ==
    \E id \in live :
        /\ dirs[id].len = 3 /\ dirs[id].merge = "default"
        /\ IsOfs(dirs[id].fss[1]) /\ Len(dirs[id].fss) >= 3
        /\ dirs[id].fss[2] = FsB(1)

\* ------------------------------------------------ the double-Close machine
\* The most copies of one Dir the pool is let hold.
MaxPut == 2

\* Dir.Close through a handle on which Close has been called before: Close
\* has no guard, so releaseDir runs again on the same object, whoever holds
\* it now, and Puts it into the pool once more.
CloseAgain(id) ==
    /\ id \in closed /\ pool[id] < MaxPut
    /\ dirs' = [dirs EXCEPT ![id] = releaseDir(@)]
    /\ pool' = PoolPut(pool, id)
    /\ last' = [NoLast EXCEPT !.op = "Close", !.d = id, !.via = "closed"]
    /\ calls' = <<>>
    /\ UNCHANGED <<kind, list, statErr, arrays, ofs, live, closed, acc>>

\* Threads open cursors on "d" of the flat overlay whose leaves all hold it,
\* read them whole and close them, and call Close on closed handles as well.
\* live is the set of objects that some handle given out by Open and not yet
\* closed refers to.
NextTwice ==
    \/ Cardinality(live) < MaxThreads /\ Open(Len(ofs), "d")
    \/ \E id \in live : ReadDir(id, -1, "live")
    \/ \E id \in live : Close(id)
    \/ \E id \in DirId : CloseAgain(id)

SpecTwice == InitClosed /\ [][NextTwice]_vars

\* C30: also when Close is called again on closed cursors, an Open that
\* returns a cursor never returns an object that an open cursor is using, so
\* that no two open cursors share offset, buffer and error state.
C30_SecondCloseHarmless ==
    [][(last'.op = "Open" /\ last'.ret.t = "dir") =>
           last'.ret.id \notin live]_vars

\* ------------------------------------------------------ the removal machine
\* Backends holding "d" as a file, as a directory or not at all (leaf 1
\* holds it unless it is a failing one), at most one leaf failing, under
\* overlays of every shape and FirstWritable setting. Paths are removed and
\* stat'ed; "e", which no backend holds at first, is created as well.
InitRemove ==
    /\ kind \in {k \in [Leaf -> [Paths -> Kinds]] : \A l \in Leaf : k[l]["e"] = "none"}
    /\ list = ListsFor(kind, [l \in Leaf |-> DefaultList(l)])
    /\ statErr \in {f \in [Leaf -> BOOLEAN] :
                        /\ Cardinality({l \in Leaf : f[l]}) <= 1
                        /\ \A l \in Leaf : f[l] => \A p \in Paths : kind[l][p] = "none"}
    /\ kind[1]["d"] # "none" \/ statErr[1]
    /\ \E cfg \in Configs([1..2 -> BOOLEAN]) : arrays = cfg.arrays /\ ofs = cfg.ofs
    /\ InitCursors

NextRemove ==
    \/ \E o \in OfsIds, p \in Paths : Remove(o, p)
    \/ \E o \in OfsIds, p \in Paths : RemoveAll(o, p)
    \/ \E o \in OfsIds : Create(o, "e")
    \/ \E o \in OfsIds, p \in Paths : Stat(o, p)

SpecRemove == InitRemove /\ [][NextRemove]_vars

\* The last call was a Remove or RemoveAll that leaf l performed successfully.
Removed(l) ==
    /\ last.op \in {"Remove", "RemoveAll"} /\ last.err = NoErr /\ ~last.panic
    /\ last.owner = FsB(l)
\* The step is the Stat of the removed path on the overlay written through.
StatOfRemoved == last'.op = "Stat" /\ last'.o = last.o /\ last'.p = last.p

\* C31 as stated: the Stat(p) that follows a successful Remove(p) or
\* RemoveAll(p) on a write-enabled overlay returns not-found if and only if
\* no backend at index 1 or beyond has p, and otherwise resolves to the
\* highest-priority backend that has p.
StatAsStated(fl, lower, p) ==
    /\ last'.err = ErrNotExist <=> (\A k \in lower : ~Has(k, p))
    /\ (\E k \in lower : Has(k, p)) =>
           last'.err = NoErr /\ last'.fi = FiOf(fl[MinOf(Holders(fl, p))], p)
C31_AsStated ==
    [][\A l \in Leaf :
           (Removed(l) /\ StatOfRemoved) =>
               StatAsStated(FlatLeaves(last.o), LowerLeaves(last.o), last.p)]_vars

\* C31 (amended): after a successful Remove(p) or RemoveAll(p) the leaf that
\* performed it no longer has p, and the Stat(p) that follows on the same
\* overlay is answered by the first leaf, depth first through nested
\* overlays, that has p or fails: not-found when there is none, the leaf's
\* metadata when it has p (it is never the leaf written to), its error when
\* it fails. Nothing hides what the other leaves hold.
StatAfterRemove(fl, p, l) ==
    /\ ~Has(l, p)
    /\ (Holders(fl, p) \cup Failing(fl) = {}) =>
           last'.err = ErrNotExist /\ last'.fi = NilFi
    /\ (Holders(fl, p) \cup Failing(fl) # {} /\ FirstAnswer(fl, p) \in Holders(fl, p)) =>
           /\ last'.err = NoErr /\ last'.fi = FiOf(fl[FirstAnswer(fl, p)], p)
           /\ fl[FirstAnswer(fl, p)] # l
    /\ (Holders(fl, p) \cup Failing(fl) # {} /\ FirstAnswer(fl, p) \in Failing(fl)) =>
           last'.err = StatError(fl[FirstAnswer(fl, p)]) /\ last'.fi = NilFi
C31_NoWhiteout ==
    [][\A l \in Leaf :
           (Removed(l) /\ StatOfRemoved) =>
               StatAfterRemove(FlatLeaves(last.o), last.p, l)]_vars

\* A Stat of "d" on a write-enabled overlay whose first backend comes down
\* to leaf 1: leaf 1, which held "d" at first, holds it no more, and the
\* Stat is answered by a lower leaf.
C31_Witness ==
    /\ last.op = "Stat" /\ last.p = "d" /\ last.err = NoErr
    /\ ofs[last.o].firstWritable /\ TargetLeaf(OfsB(last.o)) = 1
    /\ ~statErr[1] /\ ~Has(1, "d")
    /\ last.fi.fs \in LowerLeaves(last.o)

\* ---------------------------------------------------- the read-side machine
\* Backends as the read-side operations find them, under write-enabled
\* overlays, flat or with a nested overlay: paths are stat'ed and opened,
\* one cursor at a time is read, stat'ed and closed.
InitReadSide ==
    /\ kind \in {k \in [Leaf -> [Paths -> Kinds]] : \A l \in Leaf : k[l]["e"] = "none"}
    /\ list = ListsFor(kind, [l \in Leaf |-> DefaultList(l)])
    /\ statErr \in {f \in [Leaf -> BOOLEAN] :
                        /\ Cardinality({l \in Leaf : f[l]}) <= 1
                        /\ \A l \in Leaf : f[l] => \A p \in Paths : kind[l][p] = "none"}
    /\ \E cfg \in {FlatConfig(<<TRUE>>), NestedFirstConfig(<<TRUE, TRUE>>),
                   NestedLastConfig(<<TRUE, TRUE>>)} :
           arrays = cfg.arrays /\ ofs = cfg.ofs
    /\ InitCursors

NextReadSide ==
    \/ \E o \in OfsIds : Stat(o, "d")
    \/ \E o \in OfsIds : LstatIfPossible(o, "d")
    \/ \E o \in OfsIds : live = {} /\ Open(o, "d")
    \/ \E o \in OfsIds, flag \in FlagChoices :
           live = {} /\ flag \cap WriteFlags = {} /\ OpenFile(o, "d", flag)
    \/ \E id \in live, n \in {-1, 1} : ReadDir(id, n, "live")
    \/ \E id \in live, n \in {-1, 1} : Readdir(id, n, "live")
    \/ \E id \in live, n \in {-1, 1} : Readdirnames(id, n, "live")
    \/ \E id \in live : DirStat(id, "live")
    \/ \E id \in live : Close(id)

SpecReadSide == InitReadSide /\ [][NextReadSide]_vars

\* The call is a read-side one (OpenFile: with no write flag).
ReadSide(l) ==
    \/ l.op \in {"Stat", "LstatIfPossible", "Open", "DirStat", "Close"} \cup ReadOps
    \/ l.op = "OpenFile" /\ l.flag \cap WriteFlags = {}

\* C32: a read-side call invokes no mutating operation on any backend and
\* leaves every overlay's backend list, FirstWritable flag and merge strategy,
\* and what every backend holds, as they were.
C32_ReadSideFrame ==
    [][ReadSide(last') =>
           /\ \A i \in 1..Len(calls') : calls'[i].op \notin WriteOps
           /\ ofs' = ofs /\ arrays' = arrays
           /\ kind' = kind /\ list' = list]_vars

\* A cursor on a write-enabled overlay has just populated its buffer through
\* a nested write-enabled overlay, whose merged Dir it read and closed.
C32_Witness ==
    /\ last.op \in ReadOps /\ last.err = NoErr /\ last.entries # <<>>
    /\ \A o \in OfsIds : ofs[o].firstWritable
    /\ \E i \in 1..Len(calls) : calls[i].op = "Close" /\ IsOfs(calls[i].fs)
    /\ \E i \in 1..Len(calls) : calls[i].op = "ReadDir" /\ IsLeaf(calls[i].fs)

\* ------------------------------------------------- the backend-handle machine
\* Overlay 2 has overlay 1 (two leaves) nested before the third leaf; every
\* leaf holds "d" as a directory at first. Overlay 3, write-enabled, is one of
\* the leaves alone: through it "d" is removed from that leaf, made again or
\* replaced by a file while a cursor on "d" is open, so that a read finds an
\* owner gone (its Open fails) or a file (its ReadDir fails).
InitHandles ==
    /\ kind = [l \in Leaf |-> [p \in Paths |-> IF p = "d" THEN "dir" ELSE "none"]]
    /\ list = ListsFor(kind, [l \in Leaf |-> DefaultList(l)])
    /\ statErr = [l \in Leaf |-> FALSE]
    /\ \E k \in Leaf : arrays = <<Leaves(1, 2), <<OfsB(1), FsB(3)>>, <<FsB(k)>>>>
    /\ ofs = <<NewOfs(1, 2, FALSE), NewOfs(2, 2, FALSE), NewOfs(3, 1, TRUE)>>
    /\ InitCursors

NextHandles ==
    \/ \E o \in 1..2 : live = {} /\ Open(o, "d")
    \/ \E id \in live, n \in NChoices : ReadDir(id, n, "live")
    \/ \E id \in live : Readdirnames(id, -1, "live")
    \/ Remove(3, "d")
    \/ Mkdir(3, "d")
    \/ Create(3, "d")
    \/ \E id \in live : Close(id)

SpecHandles == InitHandles /\ [][NextHandles]_vars

Backends == {FsB(l) : l \in Leaf} \cup {OfsB(o) : o \in OfsIds}
\* b.Open(p) gives a handle of b's own: a leaf that holds p, or a nested
\* overlay with two owners or more of p (its merged Dir; with one owner or a
\* file the handle it passes on is the owning leaf's).
GivesHandle(b, p) ==
    IF IsLeaf(b) THEN ~statErr[b[2]] /\ Has(b[2], p)
    ELSE /\ stat(b[2], p, FALSE).r.err = NoErr
         /\ stat(b[2], p, FALSE).r.fi.kind = "dir"
         /\ Len(collectDirs(b[2], p).owners) >= 2
\* How many times the last call invoked op on b.
Times(b, op) == Cardinality({i \in 1..Len(calls) : calls[i].fs = b /\ calls[i].op = op})
\* Handles of b the last call has obtained and not closed by position i of its log.
OpenAt(b, i) ==
    Cardinality({j \in 1..i : calls[j].fs = b /\ calls[j].op = "Open"
                                /\ GivesHandle(b, calls[j].p)})
    - Cardinality({j \in 1..i : calls[j].fs = b /\ calls[j].op = "Close"})

====
